---- MODULE Spec2Model ----
(***************************************************************************)
(* Verification model of the media-agent storage and materialization       *)
(* engine: the Alist storage client (backend/services/alist_service.py),   *)
(* the STRM generator and its retry (backend/agents/tools/strm_tools.py)   *)
(* and the precondition checks of the orchestrator tools.                  *)
(***************************************************************************)
EXTENDS Integers, Sequences, FiniteSets, TLC

\* ---------------------------------------------------------------------------
\* Program constants
\* ---------------------------------------------------------------------------
MAX_RETRIES == 3
RETRY_DELAY == 1
DEFAULT_RATE_LIMIT_DELAY == 5
DEFAULT_CACHE_TTL == 300
DEFAULT_CACHE_SIZE == 100
UPLOAD_CONCURRENCY == 16
SUBTITLE_UPLOAD_CONCURRENCY == 16

\* ---------------------------------------------------------------------------
\* Bounds of the model
\* ---------------------------------------------------------------------------
\* the wall clock advances in steps of TickStep seconds, MaxTicks times
MaxTicks == 1
TickStep == 301
\* requests one list call may issue before the model stops following it
MaxLog == 4
\* subtitle tasks of one parallel pipeline run
MaxPipeTasks == 17
\* subtitles scanned next to one video
MaxSubtitles == 1

\* ---------------------------------------------------------------------------
\* The remote store seen by the Alist client
\* ---------------------------------------------------------------------------
Dirs == {"/a", "/b"}
Names == {"x", "y"}
NoDir == "-"

VARIABLES
    token,      \* AlistService._token is set
    now,        \* time.time()
    cache,      \* AlistService._cache.cache, oldest entry first
    server,     \* the directory contents held by the Alist server
    lpc,        \* position of the running list_directory call
    lpath,      \* its directory
    attempt,    \* its loop variable
    log,        \* the responses it has received so far
    sleeps,     \* the sleeps it has performed so far
    lresult,    \* what it returned
    aop,        \* the last completed storage operation and its outcome
    creq,       \* the store's answers to, and the requests of, the last content transfer
    bres        \* what the last upload_files_batch_async call returned

avars == <<token, now, cache, server, lpc, lpath, attempt, log, sleeps, lresult, aop, creq, bres>>

\* ---------------------------------------------------------------------------
\* LRUCache
\* ---------------------------------------------------------------------------
CacheKey(d) == <<"list", d>>

LRUHas(c, k) == \E i \in 1..Len(c) : c[i].key = k

LRUEntry(c, k) == c[CHOOSE i \in 1..Len(c) : c[i].key = k]

LRURemove(c, k) == SelectSeq(c, LAMBDA e : e.key # k)

\* a get whose hit leaves the entry where it is
LRUGet_KeepsPosition(c, k, t, ttl) ==
    IF ~LRUHas(c, k)
    THEN [hit |-> FALSE, value |-> {}, cache |-> c]
    ELSE LET e == LRUEntry(c, k) IN
         IF t - e.ts > ttl
         THEN [hit |-> FALSE, value |-> {}, cache |-> LRURemove(c, k)]
         ELSE [hit |-> TRUE, value |-> e.value, cache |-> c]

\* LRUCache.get: a miss, an expired entry (dropped), or a hit (moved to the end)
LRUGet(c, k, t, ttl) ==
    IF ~LRUHas(c, k)
    THEN [hit |-> FALSE, value |-> {}, cache |-> c]
    ELSE LET e == LRUEntry(c, k) IN
         IF t - e.ts > ttl
         THEN [hit |-> FALSE, value |-> {}, cache |-> LRURemove(c, k)]
         ELSE [hit |-> TRUE, value |-> e.value, cache |-> Append(LRURemove(c, k), e)]

RECURSIVE LRUEvict(_, _)
LRUEvict(c, max_size) ==
    IF Len(c) >= max_size /\ Len(c) > 0 THEN LRUEvict(Tail(c), max_size) ELSE c

\* LRUCache.set
LRUSet(c, k, v, t, max_size) ==
    Append(LRUEvict(LRURemove(c, k), max_size), [key |-> k, value |-> v, ts |-> t])

\* LRUCache.invalidate
LRUInvalidate(c, k) == LRURemove(c, k)

\* ---------------------------------------------------------------------------
\* AlistService.list_directory / list_directory_async
\* ---------------------------------------------------------------------------
RateLimitResponses == {"code429", "too_many", "http429"}
ErrorResponses == {"api_error", "http_error", "exception"}
ListResponses == {"ok", "auth401"} \cup RateLimitResponses \cup ErrorResponses

NoResult == [kind |-> "none", value |-> {}]

IdleOp == [kind |-> "none", dir |-> NoDir, result |-> "none"]

NoRequests == [script |-> <<>>, nreq |-> 0]

\* the entry of the call: login when there is no token, then the cache lookup
ListBegin(d, loginOk) ==
    /\ lpc \in {"idle", "done"}
    /\ lpath' = d
    /\ attempt' = 0
    /\ log' = <<>>
    /\ sleeps' = <<>>
    /\ aop' = [IdleOp EXCEPT !.kind = "list", !.dir = d]
    /\ IF ~token /\ ~loginOk
       THEN /\ lpc' = "done"
            /\ lresult' = [kind |-> "raised", value |-> {}]
            /\ UNCHANGED <<token, cache>>
       ELSE LET g == LRUGet(cache, CacheKey(d), now, DEFAULT_CACHE_TTL) IN
            /\ token' = TRUE
            /\ cache' = g.cache
            /\ IF g.hit
               THEN /\ lpc' = "done"
                    /\ lresult' = [kind |-> "cached", value |-> g.value]
               ELSE /\ lpc' = "loop"
                    /\ lresult' = NoResult
    /\ UNCHANGED <<now, server, creq, bres>>

\* the branch of the handler a response takes
ResponseClass(resp, loginOk) ==
    IF resp = "auth401" THEN (IF loginOk THEN "auth401_relogin" ELSE "auth401_nologin")
    ELSE IF resp \in RateLimitResponses THEN "rate_limit"
    ELSE IF resp \in ErrorResponses THEN "error"
    ELSE resp

\* a loop that would repeat a rate-limited request without counting it
NextAttempt_RateLimitNotCounted(a, resp, loginOk) ==
    IF resp \in RateLimitResponses THEN a ELSE a + 1

\* the value of the loop variable after an iteration that did not return:
\* every path (continue or fall-through) goes to the next value of range()
NextAttempt(a, resp, loginOk) == a + 1

\* a handler that would add the linear backoff to the rate-limit sleep
SleepOf_BackoffOnRateLimit(a, resp, loginOk) ==
    IF resp \in RateLimitResponses
    THEN DEFAULT_RATE_LIMIT_DELAY + (IF a < MAX_RETRIES - 1 THEN RETRY_DELAY * (a + 1) ELSE 0)
    ELSE IF resp = "auth401" /\ loginOk THEN 0
    ELSE IF a < MAX_RETRIES - 1 THEN RETRY_DELAY * (a + 1)
    ELSE 0

\* the sleep an iteration performs, 0 for none
SleepOf(a, resp, loginOk) ==
    IF resp \in RateLimitResponses THEN DEFAULT_RATE_LIMIT_DELAY
    ELSE IF resp = "auth401" /\ loginOk THEN 0
    ELSE IF a < MAX_RETRIES - 1 THEN RETRY_DELAY * (a + 1)
    ELSE 0

\* one iteration of `for attempt in range(MAX_RETRIES)`: a request, its
\* response, the handling of the response, and the raise after the last one
ListAttempt(resp, loginOk) ==
    /\ lpc = "loop"
    /\ attempt < MAX_RETRIES
    /\ Len(log) < MaxLog
    /\ log' = Append(log, ResponseClass(resp, loginOk))
    /\ IF resp = "ok"
       THEN /\ cache' = LRUSet(cache, CacheKey(lpath), server[lpath], now, DEFAULT_CACHE_SIZE)
            /\ lresult' = [kind |-> "ok", value |-> server[lpath]]
            /\ lpc' = "done"
            /\ UNCHANGED <<attempt, sleeps, token>>
       ELSE LET s == SleepOf(attempt, resp, loginOk)
                a == NextAttempt(attempt, resp, loginOk) IN
            /\ token' = IF resp = "auth401" THEN loginOk ELSE token
            /\ sleeps' = IF s > 0 THEN Append(sleeps, s) ELSE sleeps
            /\ attempt' = a
            /\ IF a >= MAX_RETRIES
               THEN lpc' = "done" /\ lresult' = [kind |-> "raised", value |-> {}]
               ELSE lpc' = "loop" /\ lresult' = NoResult
            /\ UNCHANGED cache
    /\ UNCHANGED <<now, server, lpath, aop, creq, bres>>

\* ---------------------------------------------------------------------------
\* The other operations of AlistService
\* ---------------------------------------------------------------------------
Paths == [dir : Dirs, name : Names]

\* what the store answers to the successive requests of one operation
StoreAnswers == {"ok", "transient", "rejected"}
Scripts == [1..MAX_RETRIES -> StoreAnswers]

\* `if not self._token: if not self._login_sync(): raise`
LoginFails(loginOk) == ~token /\ ~loginOk

Done(kind, d, result) == [kind |-> kind, dir |-> d, result |-> result]

\* the operations below run between list calls; the frame of the finished
\* list call is gone by then
NoListCall ==
    /\ lpc # "loop"
    /\ lpc' = "idle"
    /\ lpath' = NoDir
    /\ attempt' = 0
    /\ log' = <<>>
    /\ sleeps' = <<>>
    /\ lresult' = NoResult

\* the PUT of put_file_content and put_file_content_async: a single request
\* whose answer decides the return value
PutRequest(kind, p, loginOk, script) ==
    /\ IF LoginFails(loginOk)
       THEN /\ aop' = Done(kind, p.dir, "raised")
            /\ creq' = [script |-> script, nreq |-> 0]
            /\ UNCHANGED <<token, server>>
       ELSE /\ token' = TRUE
            /\ creq' = [script |-> script, nreq |-> 1]
            /\ IF script[1] = "ok"
               THEN /\ server' = [server EXCEPT ![p.dir] = @ \cup {p.name}]
                    /\ aop' = Done(kind, p.dir, "true")
               ELSE /\ server' = server
                    /\ aop' = Done(kind, p.dir, "false")
    /\ NoListCall
    /\ UNCHANGED <<now, cache, bres>>

PutFileContent(p, loginOk, script) == PutRequest("put", p, loginOk, script)

PutFileContentAsync(p, loginOk, script) == PutRequest("put_async", p, loginOk, script)

\* get_file_content_async: get_file_url_async, then one GET of the raw url
GetFileContentAsync(p, loginOk, urlOk, script) ==
    /\ urlOk => p.name \in server[p.dir]
    /\ IF LoginFails(loginOk)
       THEN /\ aop' = Done("get_async", p.dir, "none")
            /\ creq' = [script |-> script, nreq |-> 0]
            /\ token' = token
       ELSE /\ token' = TRUE
            /\ creq' = [script |-> script, nreq |-> IF urlOk THEN 1 ELSE 0]
            /\ aop' = IF urlOk /\ script[1] = "ok"
                      THEN Done("get_async", p.dir, "content")
                      ELSE Done("get_async", p.dir, "none")
    /\ NoListCall
    /\ UNCHANGED <<now, cache, server, bres>>

Answers == {"ok", "fail", "exception"}

\* the server renames or moves an entry only if it is there and the new
\* name is free
CanPlace(srv, d1, n1, d2, n2) == n1 \in srv[d1] /\ (<<d1, n1>> = <<d2, n2>> \/ n2 \notin srv[d2])

Placed(srv, d1, n1, d2, n2) ==
    LET s1 == [srv EXCEPT ![d1] = @ \ {n1}] IN [s1 EXCEPT ![d2] = @ \cup {n2}]

\* move_file: rename in the same directory, else move and then rename
MoveFile(src, dst, loginOk, r1, r2) ==
    /\ r1 = "ok" => CanPlace(server, src.dir, src.name, IF src.dir = dst.dir THEN dst.dir ELSE dst.dir,
                             IF src.dir = dst.dir THEN dst.name ELSE src.name)
    /\ IF LoginFails(loginOk)
       THEN /\ aop' = Done("move", dst.dir, "raised")
            /\ UNCHANGED <<token, server>>
       ELSE /\ token' = TRUE
            /\ IF src.dir = dst.dir
               THEN /\ server' = IF r1 = "ok" THEN Placed(server, src.dir, src.name, dst.dir, dst.name)
                                 ELSE server
                    /\ aop' = Done("move", dst.dir,
                                   IF r1 = "exception" THEN "raised"
                                   ELSE IF r1 = "ok" THEN "true" ELSE "false")
               ELSE LET moved == IF r1 = "ok" THEN Placed(server, src.dir, src.name, dst.dir, src.name)
                                 ELSE server IN
                    IF r1 = "exception"
                    THEN /\ server' = server
                         /\ aop' = Done("move", dst.dir, "raised")
                    ELSE IF src.name = dst.name
                    THEN /\ server' = moved
                         /\ aop' = Done("move", dst.dir, IF r1 = "ok" THEN "true" ELSE "false")
                    ELSE /\ r2 = "ok" => CanPlace(moved, dst.dir, src.name, dst.dir, dst.name)
                         /\ server' = IF r2 = "ok" THEN Placed(moved, dst.dir, src.name, dst.dir, dst.name)
                                      ELSE moved
                         /\ aop' = Done("move", dst.dir,
                                        IF r2 = "exception" THEN "raised"
                                        ELSE IF r2 = "ok" THEN "true" ELSE "false")
    /\ NoListCall
    /\ creq' = NoRequests
    /\ UNCHANGED <<now, cache, bres>>

\* copy_file: copy (asynchronous on the server, polled), then rename
CopyFile(src, dst, loginOk, r1, landed, r2) ==
    /\ r1 = "ok" /\ landed => src.name \in server[src.dir]
    /\ IF LoginFails(loginOk)
       THEN /\ aop' = Done("copy", dst.dir, "raised")
            /\ UNCHANGED <<token, server>>
       ELSE /\ token' = TRUE
            /\ IF r1 # "ok"
               THEN /\ server' = server
                    /\ aop' = Done("copy", dst.dir, IF r1 = "exception" THEN "raised" ELSE "false")
               ELSE LET copied == IF landed THEN [server EXCEPT ![dst.dir] = @ \cup {src.name}]
                                  ELSE server IN
                    IF src.name = dst.name
                    THEN /\ server' = copied
                         /\ aop' = Done("copy", dst.dir, "true")
                    ELSE /\ r2 = "ok" => CanPlace(copied, dst.dir, src.name, dst.dir, dst.name)
                         /\ server' = IF r2 = "ok" THEN Placed(copied, dst.dir, src.name, dst.dir, dst.name)
                                      ELSE copied
                         /\ aop' = Done("copy", dst.dir,
                                        IF r2 = "exception" THEN "raised"
                                        ELSE IF r2 = "ok" THEN "true" ELSE "false")
    /\ NoListCall
    /\ creq' = NoRequests
    /\ UNCHANGED <<now, cache, bres>>

\* delete_file
DeleteFile(p, loginOk, r) ==
    /\ r = "ok" => p.name \in server[p.dir]
    /\ IF LoginFails(loginOk)
       THEN /\ aop' = Done("delete", p.dir, "raised")
            /\ UNCHANGED <<token, server>>
       ELSE /\ token' = TRUE
            /\ server' = IF r = "ok" THEN [server EXCEPT ![p.dir] = @ \ {p.name}] ELSE server
            /\ aop' = Done("delete", p.dir,
                           IF r = "exception" THEN "raised"
                           ELSE IF r = "ok" THEN "true" ELSE "false")
    /\ NoListCall
    /\ creq' = NoRequests
    /\ UNCHANGED <<now, cache, bres>>

\* create_directory: code 200 creates it, code 500 (it exists) also counts
CreateDirectory(p, loginOk, r) ==
    /\ r = "ok" => p.name \notin server[p.dir]
    /\ r = "exists" => p.name \in server[p.dir]
    /\ IF LoginFails(loginOk)
       THEN /\ aop' = Done("mkdir", p.dir, "raised")
            /\ UNCHANGED <<token, server>>
       ELSE /\ token' = TRUE
            /\ server' = IF r = "ok" THEN [server EXCEPT ![p.dir] = @ \cup {p.name}] ELSE server
            /\ aop' = Done("mkdir", p.dir,
                           IF r = "exception" THEN "raised"
                           ELSE IF r \in {"ok", "exists"} THEN "true" ELSE "false")
    /\ NoListCall
    /\ creq' = NoRequests
    /\ UNCHANGED <<now, cache, bres>>

\* refresh_directory_async: list with refresh=true, then drop the local entry
RefreshDirectoryAsync(d, loginOk, r) ==
    /\ IF LoginFails(loginOk)
       THEN /\ aop' = Done("refresh", d, "false")
            /\ UNCHANGED <<token, cache>>
       ELSE /\ token' = TRUE
            /\ cache' = IF r = "ok" THEN LRUInvalidate(cache, CacheKey(d)) ELSE cache
            /\ aop' = Done("refresh", d, IF r = "ok" THEN "true" ELSE "false")
    /\ NoListCall
    /\ creq' = NoRequests
    /\ UNCHANGED <<now, server, bres>>

\* time passes
Tick ==
    /\ now < MaxTicks * TickStep
    /\ now' = now + TickStep
    /\ UNCHANGED <<token, cache, server, lpc, lpath, attempt, log, sleeps, lresult, aop, creq, bres>>

\* ---------------------------------------------------------------------------
\* upload_files_batch_async
\* ---------------------------------------------------------------------------
MaxBatch == 2
UploadAnswers == {"ok", "rejected", "exception"}
BatchFiles == UNION {[1..n -> Paths] : n \in 0..MaxBatch}

NoBatch == [kind |-> "none", success |-> 0, error |-> 0, failed_paths |-> <<>>,
            files |-> <<>>, answers |-> <<>>]

RECURSIVE FailedPathsFrom(_, _, _)
\* the loop over the gathered results, in the order of the files
FailedPathsFrom(files, answers, i) ==
    IF i > Len(files) THEN <<>>
    ELSE IF answers[i] = "ok" THEN FailedPathsFrom(files, answers, i + 1)
    ELSE <<files[i]>> \o FailedPathsFrom(files, answers, i + 1)

\* the tuple upload_files_batch_async returns once it is logged in
BatchTuple(files, answers) ==
    LET ok == Cardinality({i \in 1..Len(files) : answers[i] = "ok"}) IN
    [kind |-> "tuple", success |-> ok, error |-> Len(files) - ok,
     failed_paths |-> FailedPathsFrom(files, answers, 1),
     files |-> files, answers |-> answers]

\* what the call does when it has no token and the login is rejected
BatchLoginFailure(files, answers) ==
    [kind |-> "raised", success |-> 0, error |-> 0, failed_paths |-> <<>>,
     files |-> files, answers |-> answers]

UploadFilesBatchAsync(files, loginOk, answers) ==
    /\ aop' = Done("upload_batch", NoDir, "done")
    /\ IF files = <<>>
       THEN /\ bres' = BatchTuple(files, answers)
            /\ UNCHANGED <<token, server>>
       ELSE IF LoginFails(loginOk)
       THEN /\ bres' = BatchLoginFailure(files, answers)
            /\ UNCHANGED <<token, server>>
       ELSE /\ token' = TRUE
            /\ bres' = BatchTuple(files, answers)
            /\ server' = [d \in Dirs |-> server[d] \cup
                            {files[i].name : i \in {j \in 1..Len(files) :
                                                      files[j].dir = d /\ answers[j] = "ok"}}]
    /\ NoListCall
    /\ UNCHANGED <<now, cache, creq>>


\* ---------------------------------------------------------------------------
\* The session state and the tool node
\* ---------------------------------------------------------------------------
VideoIds == {1}
\* the subtitle languages found next to one video, in the order of the scan
Languages == <<"eng", "chs", "jpn", "cht">>
SubtitleSets == {SubSeq(Languages, 1, n) : n \in 0..MaxSubtitles}

VARIABLES
    session,    \* MediaAgentState: the fields the tools read and update
    reply,      \* the last tool response and the tool that gave it
    gpc,        \* position of the running generate_strm call
    run,        \* the locals of that call
    retried     \* the entries and outcomes of the last retry_failed_uploads replay

svars == <<session, reply, gpc, run, retried>>

\* a configuration dict that has never been set, or was set to {}
NoConfig == [url |-> "", target_path |-> "", connected |-> FALSE]

NoProgress == [total |-> 0, success |-> 0, error |-> 0, status |-> ""]

EmptySession ==
    [storage_config |-> NoConfig,
     strm_target_config |-> NoConfig,
     user_config |-> [upload_delay |-> 0],
     scanned_files |-> <<>>,
     scan_progress |-> [videos |-> 0, subtitles |-> 0],
     scan_result |-> [total_files |-> 0],
     classifications |-> <<>>,
     classification_result |-> 0,
     failed_uploads |-> <<>>,
     strm_progress |-> NoProgress,
     organize_progress |-> NoProgress]

\* a state_update: the keys it carries and their values
Delta(keys, value) == [keys |-> keys, value |-> value]

\* a response without state_update that would still empty the classifications
NoUpdate_ClearsClassifications == Delta({"classifications"}, EmptySession)

NoUpdate == Delta({}, EmptySession)

Msg(kind) == [kind |-> kind, success |-> 0, error |-> 0]

Counted(kind, success, error) == [kind |-> kind, success |-> success, error |-> error]

MakeToolResponse(message, state_update) == [message |-> message, state_update |-> state_update]

NoReply == [tool |-> "", output_format |-> "", message |-> Msg(""), state_update |-> {}]

\* updated_data.update(state_update) followed by the merge into the state
Merge(state, state_update) ==
    [k \in DOMAIN state |-> IF k \in state_update.keys THEN state_update.value[k] ELSE state[k]]

\* the tool node: a non-empty state_update is merged into the session; the
\* reply keeps the keys of the state_update
ToolNode(tool, output_format, response) ==
    /\ reply' = [tool |-> tool, output_format |-> output_format,
                 message |-> response.message, state_update |-> response.state_update.keys]
    /\ session' = IF response.state_update.keys # {}
                  THEN Merge(session, response.state_update)
                  ELSE session

\* get_storage_service(state) / get_strm_target_service(state)
HasService(config, created) == config.url # "" /\ created

NoRun ==
    [mode |-> "none", all_strm_files |-> <<>>, all_subtitle_tasks |-> <<>>, i |-> 0,
     strm_issued |-> 0, strm_success |-> 0, strm_error |-> 0, sub_success |-> 0, sub_error |-> 0,
     failed_paths |-> <<>>, failed_upload_details |-> <<>>,
     results |-> <<>>, slept |-> 0, refreshed |-> FALSE, raised |-> FALSE]

NoRetry == [before |-> <<>>, outcomes |-> <<>>]

\* a tool other than generate_strm runs when no generate_strm call is running
ToolIdle ==
    /\ gpc = "idle"
    /\ gpc' = gpc
    /\ run' = NoRun

\* the response of a tool that finds a precondition missing
PreconditionFailure_ClearsConfig(tool, output_format, message) ==
    ToolNode(tool, output_format,
             MakeToolResponse(Msg(message), Delta({"storage_config"}, EmptySession)))

PreconditionFailure(tool, output_format, message) ==
    ToolNode(tool, output_format, MakeToolResponse(Msg(message), NoUpdate))

\* ---------------------------------------------------------------------------
\* connect_webdav, connect_strm_target, set_user_config
\* ---------------------------------------------------------------------------
TargetPaths == {"", "/lib"}

ConnectWebdav(ok, target_path) ==
    /\ ToolIdle
    /\ retried' = NoRetry
    /\ IF ok
       THEN ToolNode("connect_webdav", "",
                MakeToolResponse(Msg("connected"),
                    Delta({"storage_config", "scanned_files"},
                          [EmptySession EXCEPT
                              !.storage_config = [url |-> "http://src", target_path |-> target_path,
                                                  connected |-> TRUE],
                              !.scanned_files = <<>>])))
       ELSE ToolNode("connect_webdav", "",
                MakeToolResponse(Msg("connect_failed"), Delta({"storage_config"}, EmptySession)))

ConnectStrmTarget(ok) ==
    /\ ToolIdle
    /\ retried' = NoRetry
    /\ IF ok
       THEN ToolNode("connect_strm_target", "",
                MakeToolResponse(Msg("connected"),
                    Delta({"strm_target_config"},
                          [EmptySession EXCEPT
                              !.strm_target_config = [url |-> "http://dst", target_path |-> "/strm",
                                                      connected |-> TRUE]])))
       ELSE ToolNode("connect_strm_target", "", MakeToolResponse(Msg("connect_failed"), NoUpdate))

UploadDelays == {0, 1}

SetUserConfig(upload_delay) ==
    /\ ToolIdle
    /\ retried' = NoRetry
    /\ LET new_config == [upload_delay |-> IF upload_delay >= 0 THEN upload_delay
                                           ELSE session.user_config.upload_delay]
       IN ToolNode("set_user_config", "",
              MakeToolResponse(Msg(IF upload_delay >= 0 THEN "updated" ELSE "nothing_given"),
                  Delta({"user_config"}, [EmptySession EXCEPT !.user_config = new_config])))

\* ---------------------------------------------------------------------------
\* scan_media_files, analyze_and_classify, organize_files
\* ---------------------------------------------------------------------------
ScannedVideo == [id : VideoIds, subtitles : SubtitleSets]

\* what a scan can find: nothing, or a video with its subtitles
Inventories == {<<>>} \cup {<<v>> : v \in ScannedVideo}

\* the scan that finds a video with all its subtitles
FullInventories == {<<v>> : v \in {w \in ScannedVideo : Len(w.subtitles) = MaxSubtitles}}

RECURSIVE SubtitleCount(_, _)
SubtitleCount(files, i) ==
    IF i > Len(files) THEN 0 ELSE Len(files[i].subtitles) + SubtitleCount(files, i + 1)

ScanMediaFiles(created, raised, files) ==
    /\ ToolIdle
    /\ retried' = NoRetry
    /\ IF ~HasService(session.storage_config, created)
       THEN PreconditionFailure("scan_media_files", "", "connect_source_first")
       ELSE IF raised
       THEN ToolNode("scan_media_files", "", MakeToolResponse(Msg("scan_failed"), NoUpdate))
       ELSE ToolNode("scan_media_files", "",
                MakeToolResponse(Msg(IF files = <<>> THEN "nothing_found" ELSE "scanned"),
                    Delta(IF files = <<>> THEN {"scanned_files", "scan_progress"}
                          ELSE {"scanned_files", "scan_progress", "scan_result"},
                          [EmptySession EXCEPT
                              !.scanned_files = files,
                              !.scan_progress = [videos |-> Len(files),
                                                 subtitles |-> SubtitleCount(files, 1)],
                              !.scan_result = [total_files |-> Len(files) + SubtitleCount(files, 1)]])))

\* the classified files of the scanned videos
Classified(files) ==
    [i \in 1..Len(files) |-> [path |-> files[i].id, episode |-> i, subtitles |-> files[i].subtitles]]

AnalyzeAndClassify(mappingsOk) ==
    /\ ToolIdle
    /\ retried' = NoRetry
    /\ IF session.scanned_files = <<>>
       THEN PreconditionFailure("analyze_and_classify", "", "scan_first")
       ELSE IF ~mappingsOk
       THEN ToolNode("analyze_and_classify", "", MakeToolResponse(Msg("bad_mappings"), NoUpdate))
       ELSE ToolNode("analyze_and_classify", "",
                MakeToolResponse(Msg("classified"),
                    Delta({"classifications", "classification_result"},
                          [EmptySession EXCEPT
                              !.classifications = Classified(session.scanned_files),
                              !.classification_result = Len(session.scanned_files)])))

OrganizeFiles(created, total_success) ==
    /\ ToolIdle
    /\ retried' = NoRetry
    /\ IF session.classifications = <<>>
       THEN PreconditionFailure("organize_files", "", "classify_first")
       ELSE IF ~HasService(session.storage_config, created)
       THEN PreconditionFailure("organize_files", "", "connect_source_first")
       ELSE IF session.storage_config.target_path = ""
       THEN PreconditionFailure("organize_files", "", "set_target_path_first")
       ELSE LET total == Len(session.classifications)
            IN ToolNode("organize_files", "",
                   MakeToolResponse(Counted("organized", total_success, total - total_success),
                       Delta({"classifications", "organize_progress"},
                             [EmptySession EXCEPT
                                 !.classifications = <<>>,
                                 !.organize_progress = [total |-> total, success |-> total_success,
                                                        error |-> total - total_success,
                                                        status |-> "completed"]])))

\* ---------------------------------------------------------------------------
\* generate_strm: planning
\* ---------------------------------------------------------------------------
SUBTITLE_LANGUAGE_PRIORITY ==
    <<"chs", "sc", "chsjp", "scjp", "cht", "tc", "chtjp", "tcjp", "eng", "en", "jpn", "jap", "jp", "und">>

\* _get_language_priority: the index in the priority list, 999 for a language not in it
LanguagePriority(lang) ==
    IF \E k \in 1..Len(SUBTITLE_LANGUAGE_PRIORITY) : SUBTITLE_LANGUAGE_PRIORITY[k] = lang
    THEN (CHOOSE k \in 1..Len(SUBTITLE_LANGUAGE_PRIORITY) : SUBTITLE_LANGUAGE_PRIORITY[k] = lang) - 1
    ELSE 999

\* _select_default_subtitle: min() returns the first subtitle of the least priority value
SelectDefaultSubtitle(subtitles) ==
    subtitles[CHOOSE k \in 1..Len(subtitles) :
                 \A j \in 1..Len(subtitles) :
                    \/ LanguagePriority(subtitles[k]) < LanguagePriority(subtitles[j])
                    \/ LanguagePriority(subtitles[k]) = LanguagePriority(subtitles[j]) /\ k <= j]

\* the default subtitle task of a classified file, then one task per subtitle
SubtitleTasksOf(cf) ==
    IF cf.subtitles = <<>>
    THEN <<>>
    ELSE <<[source_path |-> <<cf.path, SelectDefaultSubtitle(cf.subtitles)>>,
            target_path |-> <<cf.path, "">>, is_default |-> TRUE]>>
         \o [k \in 1..Len(cf.subtitles) |->
                [source_path |-> <<cf.path, cf.subtitles[k]>>,
                 target_path |-> <<cf.path, cf.subtitles[k]>>, is_default |-> FALSE]]

RECURSIVE AllStrmFiles(_, _)
AllStrmFiles(classifications, i) ==
    IF i > Len(classifications) THEN <<>>
    ELSE (IF classifications[i].episode <= 0 THEN <<>> ELSE << <<classifications[i].path, "strm">> >>)
         \o AllStrmFiles(classifications, i + 1)

RECURSIVE AllSubtitleTasks(_, _)
AllSubtitleTasks(classifications, i) ==
    IF i > Len(classifications) THEN <<>>
    ELSE (IF classifications[i].episode <= 0 THEN <<>> ELSE SubtitleTasksOf(classifications[i]))
         \o AllSubtitleTasks(classifications, i + 1)

\* ---------------------------------------------------------------------------
\* generate_strm: the upload run
\* ---------------------------------------------------------------------------
OutputFormats == {"webdav", "list", "zip", "other"}

\* the statements of the upload run in program order: the serial branch runs the
\* STRM loop and then the subtitle loop, the parallel branch awaits the STRM
\* batch, then the subtitle pipeline, then the directory refresh
StageOrder_SubtitlesFirst(mode) ==
    IF mode = "serial" THEN <<"subs", "strm">> ELSE <<"pipeline", "batch", "refresh">>

StageOrder(mode) ==
    IF mode = "serial" THEN <<"strm", "subs">> ELSE <<"batch", "pipeline", "refresh">>

StageAfter(mode, stage) ==
    LET order == StageOrder(mode)
        k == CHOOSE j \in 1..Len(order) : order[j] = stage
    IN IF k = Len(order) THEN "build" ELSE order[k + 1]

\* how many times the statement of a stage executes
Iterations(r, stage) ==
    CASE stage = "strm" -> Len(r.all_strm_files)
      [] stage = "subs" -> Len(r.all_subtitle_tasks)
      [] stage = "batch" -> 1
      [] stage = "pipeline" -> IF r.all_subtitle_tasks # <<>> THEN 1 ELSE 0
      [] stage = "refresh" -> IF Len(r.all_strm_files) + Len(r.all_subtitle_tasks) > 0 THEN 1 ELSE 0
      [] OTHER -> 0

\* the first stage, from the given one on, that has something to execute
RECURSIVE Goto(_, _)
Goto(r, stage) ==
    IF stage = "build" \/ Iterations(r, stage) > 0
    THEN stage
    ELSE Goto(r, StageAfter(r.mode, stage))

GenerateStrmBegin(output_format, created) ==
    /\ gpc = "idle"
    /\ LET planned == [NoRun EXCEPT
                          !.mode = IF session.user_config.upload_delay > 0 THEN "serial" ELSE "parallel",
                          !.all_strm_files = AllStrmFiles(session.classifications, 1),
                          !.all_subtitle_tasks = AllSubtitleTasks(session.classifications, 1)]
           total == Len(planned.all_strm_files) + Len(planned.all_subtitle_tasks)
           returned == gpc' = "idle" /\ run' = NoRun /\ retried' = NoRetry
       IN IF session.classifications = <<>>
          THEN PreconditionFailure("generate_strm", output_format, "classify_first") /\ returned
          ELSE IF output_format = "webdav" /\ ~session.strm_target_config.connected
          THEN PreconditionFailure("generate_strm", output_format, "connect_target_first") /\ returned
          ELSE IF session.storage_config.url = ""
          THEN PreconditionFailure("generate_strm", output_format, "connect_source_first") /\ returned
          ELSE IF ~HasService(session.storage_config, created)
          THEN PreconditionFailure("generate_strm", output_format, "source_not_initialized") /\ returned
          ELSE IF output_format = "list"
          THEN /\ ToolNode("generate_strm", output_format,
                           MakeToolResponse(Counted("listed", total, 0), NoUpdate))
               /\ returned
          ELSE IF output_format = "zip"
          THEN /\ ToolNode("generate_strm", output_format,
                           MakeToolResponse(Counted("zipped", total, 0), NoUpdate))
               /\ returned
          ELSE IF output_format # "webdav"
          THEN /\ ToolNode("generate_strm", output_format,
                           MakeToolResponse(Msg("unknown_format"), NoUpdate))
               /\ returned
          ELSE /\ run' = planned
               /\ gpc' = Goto(planned, StageOrder(planned.mode)[1])
               /\ UNCHANGED <<session, reply, retried>>

\* the position after one more iteration of the loop of a serial stage
AfterIteration(r, stage) ==
    IF r.i + 1 >= Iterations(r, stage)
    THEN <<Goto(r, StageAfter(r.mode, stage)), 0>>
    ELSE <<stage, r.i + 1>>

PutAnswers == {"true", "false", "raise"}

\* one iteration of the serial STRM loop
SerialStrmPut(answer) ==
    /\ gpc = "strm"
    /\ LET path == run.all_strm_files[run.i + 1]
           next == AfterIteration(run, "strm")
       IN /\ run' = [run EXCEPT
                        !.slept = @ + (IF run.i > 0 THEN 1 ELSE 0),
                        !.strm_issued = @ + 1,
                        !.strm_success = @ + (IF answer = "true" THEN 1 ELSE 0),
                        !.strm_error = @ + (IF answer = "true" THEN 0 ELSE 1),
                        !.failed_paths = IF answer = "true" THEN @ ELSE Append(@, path),
                        !.i = next[2]]
          /\ gpc' = next[1]
    /\ UNCHANGED <<session, reply, retried>>

\* what became of one subtitle task: uploaded, the download gave nothing, the
\* upload was refused
TaskOutcomes == {"ok", "download", "upload"}

\* one iteration of the serial subtitle loop: download, then upload
SerialSubtitle(outcome) ==
    /\ gpc = "subs"
    /\ LET task == run.all_subtitle_tasks[run.i + 1]
           next == AfterIteration(run, "subs")
       IN /\ run' = [run EXCEPT
                        !.slept = @ + (IF run.i > 0 THEN 1 ELSE 0),
                        !.sub_success = @ + (IF outcome = "ok" THEN 1 ELSE 0),
                        !.sub_error = @ + (IF outcome = "ok" THEN 0 ELSE 1),
                        !.failed_paths = IF outcome = "ok" THEN @ ELSE Append(@, task.target_path),
                        !.results = Append(@, outcome),
                        !.i = next[2]]
          /\ gpc' = next[1]
    /\ UNCHANGED <<session, reply, retried>>

RECURSIVE FailedStrm(_, _, _)
FailedStrm(files, answers, i) ==
    IF i > Len(files) THEN <<>>
    ELSE (IF answers[i] = "ok" THEN <<>> ELSE <<files[i]>>) \o FailedStrm(files, answers, i + 1)

\* await target_service.upload_files_batch_async(all_strm_files): the batch
\* raises when the fresh target client cannot log in, which aborts the run
ParallelStrmBatch(loginOk, answers) ==
    /\ gpc = "batch"
    /\ IF ~loginOk
       THEN /\ run' = [run EXCEPT !.strm_issued = Len(run.all_strm_files), !.raised = TRUE]
            /\ gpc' = "build"
       ELSE LET failed == FailedStrm(run.all_strm_files, answers, 1)
            IN /\ run' = [run EXCEPT
                             !.strm_issued = Len(run.all_strm_files),
                             !.strm_success = Len(run.all_strm_files) - Len(failed),
                             !.strm_error = Len(failed),
                             !.failed_paths = @ \o failed]
               /\ gpc' = Goto(run, StageAfter(run.mode, "batch"))
    /\ UNCHANGED <<session, reply, retried>>

\* the entry kept for a failed subtitle task
FailedDetail(task, error) ==
    [source_path |-> task.source_path, target_path |-> task.target_path,
     type |-> "subtitle", error |-> error]

RECURSIVE FailedDetails(_, _, _)
FailedDetails(tasks, outcomes, i) ==
    IF i > Len(tasks) THEN <<>>
    ELSE (IF outcomes[i] = "ok" THEN <<>> ELSE <<FailedDetail(tasks[i], outcomes[i])>>)
         \o FailedDetails(tasks, outcomes, i + 1)

\* await _process_subtitles_batch_async(all_subtitle_tasks, ...)
ParallelSubtitles(outcomes) ==
    /\ gpc = "pipeline"
    /\ LET details == FailedDetails(run.all_subtitle_tasks, outcomes, 1)
       IN /\ run' = [run EXCEPT
                        !.sub_success = Len(outcomes) - Len(details),
                        !.sub_error = Len(details),
                        !.failed_paths = @ \o [k \in 1..Len(details) |-> details[k].target_path],
                        !.failed_upload_details = details,
                        !.results = outcomes]
          /\ gpc' = Goto(run, StageAfter(run.mode, "pipeline"))
    /\ UNCHANGED <<session, reply, retried>>

\* await target_service.refresh_directories_batch_async(dirs_to_refresh)
ParallelRefresh ==
    /\ gpc = "refresh"
    /\ run' = [run EXCEPT !.refreshed = TRUE]
    /\ gpc' = Goto(run, StageAfter(run.mode, "refresh"))
    /\ UNCHANGED <<session, reply, retried>>

\* the state_update built after the upload run; failed_upload_details is
\* assigned only when the parallel branch ran to its end
GenerateStrmFinish ==
    /\ gpc = "build"
    /\ LET defined == run.mode = "parallel" /\ ~run.raised
           total_success == run.strm_success + run.sub_success
           total_error == run.strm_error + run.sub_error
           progress == [total |-> Len(run.all_strm_files) + Len(run.all_subtitle_tasks),
                        success |-> total_success, error |-> total_error, status |-> "completed"]
           keep == defined /\ run.failed_upload_details # <<>>
       IN /\ ToolNode("generate_strm", "webdav",
                MakeToolResponse(Counted("uploaded", total_success, total_error),
                    Delta(IF keep THEN {"classifications", "strm_progress", "failed_uploads"}
                          ELSE {"classifications", "strm_progress"},
                          [EmptySession EXCEPT
                              !.classifications = <<>>,
                              !.strm_progress = progress,
                              !.failed_uploads = IF keep THEN run.failed_upload_details ELSE <<>>])))
          /\ run' = run
    /\ gpc' = "idle"
    /\ retried' = NoRetry

\* ---------------------------------------------------------------------------
\* retry_failed_uploads
\* ---------------------------------------------------------------------------
\* an entry stays in the list when its download or its upload failed again
StillFails_UploadOnly(outcome) == outcome = "upload"

StillFails(outcome) == outcome # "ok"

RECURSIVE StillFailed(_, _, _)
StillFailed(items, outcomes, i) ==
    IF i > Len(items) THEN <<>>
    ELSE (IF items[i].type # "subtitle" \/ ~StillFails(outcomes[i])
          THEN <<>>
          ELSE <<[items[i] EXCEPT !.error = outcomes[i]]>>)
         \o StillFailed(items, outcomes, i + 1)

RetryFailedUploads(sourceCreated, targetCreated, outcomes) ==
    /\ ToolIdle
    /\ LET failed_uploads == session.failed_uploads
       IN IF failed_uploads = <<>>
          THEN /\ ToolNode("retry_failed_uploads", "", MakeToolResponse(Msg("nothing_to_retry"), NoUpdate))
               /\ retried' = NoRetry
          ELSE IF ~HasService(session.storage_config, sourceCreated)
                  \/ ~HasService(session.strm_target_config, targetCreated)
          THEN /\ ToolNode("retry_failed_uploads", "", MakeToolResponse(Msg("connect_first"), NoUpdate))
               /\ retried' = NoRetry
          ELSE LET still_failed == StillFailed(failed_uploads, outcomes, 1)
                   success_count == Cardinality({i \in 1..Len(failed_uploads) :
                                                    failed_uploads[i].type = "subtitle" /\ outcomes[i] = "ok"})
               IN /\ ToolNode("retry_failed_uploads", "",
                         MakeToolResponse(Counted("retried", success_count, Len(still_failed)),
                             Delta({"failed_uploads"},
                                   [EmptySession EXCEPT !.failed_uploads = still_failed])))
                  /\ retried' = [before |-> failed_uploads, outcomes |-> outcomes]

\* ---------------------------------------------------------------------------
\* _process_subtitles_batch_async: the tasks of one gather, counted by position
\* ---------------------------------------------------------------------------
VARIABLES
    pipe        \* the semaphore and the number of tasks at each position

pvars == <<pipe>>

NoPipe ==
    [pc |-> "idle", waiting |-> 0, downloading |-> 0, uploading |-> 0,
     success_count |-> 0, error_count |-> 0, semaphore |-> 0]

\* asyncio.Semaphore.acquire proceeds only while the value is positive
SemaphoreAcquirable_Always(value) == TRUE

SemaphoreAcquirable(value) == value > 0

ProcessSubtitlesBatchBegin(n, concurrency) ==
    /\ pipe.pc \in {"idle", "done"}
    /\ pipe' = IF n = 0
               THEN [NoPipe EXCEPT !.pc = "done"]
               ELSE [NoPipe EXCEPT !.pc = "gather", !.waiting = n, !.semaphore = concurrency]

\* async with semaphore: a task enters and starts its download
TaskAcquire ==
    /\ pipe.pc = "gather"
    /\ pipe.waiting > 0
    /\ SemaphoreAcquirable(pipe.semaphore)
    /\ pipe' = [pipe EXCEPT !.waiting = @ - 1, !.semaphore = @ - 1, !.downloading = @ + 1]

\* the download of a task ends: with content the task starts its upload at
\* once, without content it leaves the semaphore as failed
TaskDownloaded(content) ==
    /\ pipe.pc = "gather"
    /\ pipe.downloading > 0
    /\ pipe' = IF content
               THEN [pipe EXCEPT !.downloading = @ - 1, !.uploading = @ + 1]
               ELSE [pipe EXCEPT !.downloading = @ - 1, !.semaphore = @ + 1, !.error_count = @ + 1]

\* the upload of a task ends and the task leaves the semaphore
TaskUploaded(success) ==
    /\ pipe.pc = "gather"
    /\ pipe.uploading > 0
    /\ pipe' = [pipe EXCEPT !.uploading = @ - 1, !.semaphore = @ + 1,
                            !.success_count = @ + (IF success THEN 1 ELSE 0),
                            !.error_count = @ + (IF success THEN 0 ELSE 1)]

\* gather returns when every task has returned
ProcessSubtitlesBatchEnd ==
    /\ pipe.pc = "gather"
    /\ pipe.waiting = 0 /\ pipe.downloading = 0 /\ pipe.uploading = 0
    /\ pipe' = [pipe EXCEPT !.pc = "done"]

\* ---------------------------------------------------------------------------
\* RateLimiter and the operations of the storage clients
\* ---------------------------------------------------------------------------
\* the minimum interval configured on the gate, in clock units
MinInterval == 2
\* how many intervals the clock runs on
MaxIntervals == 3
\* threads and coroutines calling the client at the same time
MaxCallers == 3

Callers == 1..MaxCallers

VARIABLES
    clock,          \* time.time(), far from the initial last_request_time of 0.0
    rate_limiter,   \* RateLimiter: last_request_time and the holder of its lock
    callers,        \* the position of each caller's storage operation
    released,       \* the times at which callers came out of wait / wait_async
    sent            \* the requests sent, with whether the caller went through the gate

gvars == <<clock, rate_limiter, callers, released, sent>>

Variants == {"alist", "webdav"}

Operations == {"list", "get_content", "put_content", "mkdir", "move", "copy", "delete",
               "exists", "refresh_dir"}

\* the methods each client has: the operation and whether it is the coroutine
Provides(variant, operation, async) ==
    IF variant = "alist"
    THEN \/ operation \in {"list", "get_content", "put_content", "mkdir"}
         \/ operation \in {"move", "copy", "delete", "exists"} /\ ~async
         \/ operation = "refresh_dir" /\ async
    ELSE \/ operation \in {"list", "put_content", "mkdir"}
         \/ operation \in {"get_content", "move", "exists"} /\ ~async

\* what the method calls before its request: self._rate_limiter.wait(),
\* await self._rate_limiter.wait_async(), or neither
GateOf(variant, operation, async) ==
    IF variant = "alist" /\ operation \notin {"exists", "refresh_dir"}
    THEN IF async THEN "wait_async" ELSE "wait"
    ELSE "none"

IdleCaller == [pc |-> "idle", variant |-> "", operation |-> "", async |-> FALSE,
               gated |-> FALSE, wake |-> 0]

NoLimiter == [last_request_time |-> 0, lock |-> 0]

InitGate ==
    /\ clock = MinInterval
    /\ rate_limiter = NoLimiter
    /\ callers = [c \in Callers |-> IdleCaller]
    /\ released = <<>>
    /\ sent = <<>>

\* time passes
ClockTick ==
    /\ clock < MinInterval * MaxIntervals
    /\ clock' = clock + 1
    /\ UNCHANGED <<rate_limiter, callers, released, sent>>

\* the time a caller that reads the clock now has to sleep, 0 for no sleep
SleepTime ==
    LET elapsed == clock - rate_limiter.last_request_time
    IN IF elapsed < MinInterval THEN MinInterval - elapsed ELSE 0

\* a caller enters a method of a client; a coroutine entering wait_async that
\* need not sleep stamps last_request_time without yielding to the loop
Call(c, variant, operation, async) ==
    /\ callers[c].pc = "idle"
    /\ Provides(variant, operation, async)
    /\ LET entered == [IdleCaller EXCEPT !.variant = variant, !.operation = operation,
                                         !.async = async]
           gate == GateOf(variant, operation, async)
       IN CASE gate = "wait" ->
                 /\ callers' = [callers EXCEPT ![c] = [entered EXCEPT !.pc = "acquire"]]
                 /\ UNCHANGED <<rate_limiter, released>>
            [] gate = "wait_async" ->
                 IF SleepTime > 0
                 THEN /\ callers' = [callers EXCEPT
                                        ![c] = [entered EXCEPT !.pc = "asleep",
                                                               !.wake = clock + SleepTime]]
                      /\ UNCHANGED <<rate_limiter, released>>
                 ELSE /\ callers' = [callers EXCEPT
                                        ![c] = [entered EXCEPT !.pc = "send", !.gated = TRUE]]
                      /\ rate_limiter' = [rate_limiter EXCEPT !.last_request_time = clock]
                      /\ released' = Append(released, clock)
            [] OTHER ->
                 /\ callers' = [callers EXCEPT ![c] = [entered EXCEPT !.pc = "send"]]
                 /\ UNCHANGED <<rate_limiter, released>>
    /\ UNCHANGED <<clock, sent>>

\* RateLimiter.wait: with self.lock
WaitAcquire(c) ==
    /\ callers[c].pc = "acquire"
    /\ rate_limiter.lock = 0
    /\ rate_limiter' = [rate_limiter EXCEPT !.lock = c]
    /\ callers' = [callers EXCEPT ![c].pc = "locked"]
    /\ UNCHANGED <<clock, released, sent>>

\* RateLimiter.wait: now, elapsed and the decision to sleep
WaitRead(c) ==
    /\ callers[c].pc = "locked"
    /\ callers' = [callers EXCEPT ![c].pc = IF SleepTime > 0 THEN "sleeping" ELSE "stamp",
                                  ![c].wake = clock + SleepTime]
    /\ UNCHANGED <<clock, rate_limiter, released, sent>>

\* RateLimiter.wait: time.sleep(sleep_time) is over
WaitWake(c) ==
    /\ callers[c].pc = "sleeping"
    /\ clock >= callers[c].wake
    /\ callers' = [callers EXCEPT ![c].pc = "stamp"]
    /\ UNCHANGED <<clock, rate_limiter, released, sent>>

\* RateLimiter.wait: last_request_time is stamped and the lock is released
WaitStamp(c) ==
    /\ callers[c].pc = "stamp"
    /\ rate_limiter' = [last_request_time |-> clock, lock |-> 0]
    /\ callers' = [callers EXCEPT ![c].pc = "send", ![c].gated = TRUE]
    /\ released' = Append(released, clock)
    /\ UNCHANGED <<clock, sent>>

\* RateLimiter.wait_async: asyncio.sleep(sleep_time) is over, last_request_time
\* is stamped
WaitAsyncWake(c) ==
    /\ callers[c].pc = "asleep"
    /\ clock >= callers[c].wake
    /\ rate_limiter' = [rate_limiter EXCEPT !.last_request_time = clock]
    /\ callers' = [callers EXCEPT ![c].pc = "send", ![c].gated = TRUE]
    /\ released' = Append(released, clock)
    /\ UNCHANGED <<clock, sent>>

\* the method sends its request
SendRequest(c) ==
    /\ callers[c].pc = "send"
    /\ sent' = Append(sent, [variant |-> callers[c].variant, operation |-> callers[c].operation,
                             async |-> callers[c].async, gated |-> callers[c].gated])
    /\ callers' = [callers EXCEPT ![c] = [IdleCaller EXCEPT !.pc = "done"]]
    /\ UNCHANGED <<clock, rate_limiter, released>>

\* the steps of the callers in the given set, for the given methods
GateStep(who, variants, operations, asyncs) ==
    \/ \E c \in who, variant \in variants, operation \in operations, async \in asyncs :
          Call(c, variant, operation, async)
    \/ \E c \in who : WaitAcquire(c)
    \/ \E c \in who : WaitRead(c)
    \/ \E c \in who : WaitWake(c)
    \/ \E c \in who : WaitStamp(c)
    \/ \E c \in who : WaitAsyncWake(c)
    \/ \E c \in who : SendRequest(c)
    \/ ClockTick

\* ---------------------------------------------------------------------------
\* TMDB episode mapping: build_episode_mapping
\* ---------------------------------------------------------------------------
\* seasons of a show, and episodes of a season, that TMDB reports
MaxSeasons == 2
MaxEpisodes == 2

VARIABLES
    tmdb,       \* what TMDB answers for the show: its details and its seasons
    mapping     \* the TMDBMapping under construction and the locals of the build

mvars == <<tmdb, mapping>>

\* the episode_number values of the episodes of a season: none of them carries
\* the key (0), or they count on from the first one
EpisodeLists ==
    {[i \in 1..n |-> IF first = 0 THEN 0 ELSE first + i - 1] : n \in 0..MaxEpisodes, first \in 0..2}

\* what get_tv_season answers: nothing, or a season with its episodes
SeasonAnswers ==
    {[loaded |-> FALSE, episodes |-> <<>>]} \cup {[loaded |-> TRUE, episodes |-> e] : e \in EpisodeLists}

\* what get_tv_details and get_tv_season answer for a show
Shows ==
    {[found |-> FALSE, seasons |-> <<>>]}
    \cup {[found |-> TRUE, seasons |-> s] : s \in UNION {[1..k -> SeasonAnswers] : k \in 0..MaxSeasons}}

\* a show of two seasons of two episodes, numbered from 1 in each season
PlainShow ==
    [found |-> TRUE,
     seasons |-> <<[loaded |-> TRUE, episodes |-> <<1, 2>>], [loaded |-> TRUE, episodes |-> <<1, 2>>]>>]

NoMapping ==
    [pc |-> "none", by_cumulative |-> <<>>, by_season_episode |-> <<>>, order |-> <<>>,
     total_seasons |-> 0, total_episodes |-> 0, season_num |-> 0, cumulative |-> 0]

InitMapping ==
    /\ tmdb = PlainShow
    /\ mapping = NoMapping

\* d[key] = value
DictSet(d, key, value) == (key :> value) @@ d

\* ep.get('episode_number', i + 1) for the episode at position i, counted from 1
TmdbEpisode(episodes, i) == IF episodes[i] = 0 THEN i ELSE episodes[i]

\* a counter that would follow the episode_number of the first episode of a season
NextCumulative_FollowsEpisodeNumber(cumulative, episodes, i) ==
    IF i = 1 THEN cumulative + TmdbEpisode(episodes, i) ELSE cumulative + 1

\* cumulative += 1
NextCumulative(cumulative, episodes, i) == cumulative + 1

\* for i, ep in enumerate(episodes): the mapping after the episodes from i on
RECURSIVE AddEpisodes(_, _, _)
AddEpisodes(m, episodes, i) ==
    IF i > Len(episodes) THEN m
    ELSE LET cumulative == NextCumulative(m.cumulative, episodes, i)
             episode_info == [season |-> m.season_num, episode_in_season |-> i,
                              tmdb_episode |-> TmdbEpisode(episodes, i), cumulative |-> cumulative]
         IN AddEpisodes([m EXCEPT
                            !.cumulative = cumulative,
                            !.by_cumulative = DictSet(@, cumulative, episode_info),
                            !.by_season_episode = DictSet(@, <<m.season_num, i>>, episode_info),
                            !.order = Append(@, cumulative)],
                        episodes, i + 1)

\* build_episode_mapping up to the loop over the seasons
BuildEpisodeMappingBegin ==
    /\ mapping.pc = "none"
    /\ mapping' = IF ~tmdb.found
                  THEN [NoMapping EXCEPT !.pc = "failed"]
                  ELSE [NoMapping EXCEPT !.pc = "loop", !.total_seasons = Len(tmdb.seasons),
                                         !.season_num = 1]
    /\ UNCHANGED tmdb

\* one iteration of `for season_num in range(1, seasons_count + 1)`
BuildSeason ==
    /\ mapping.pc = "loop"
    /\ mapping.season_num <= mapping.total_seasons
    /\ LET season_info == tmdb.seasons[mapping.season_num]
           added == IF ~season_info.loaded \/ season_info.episodes = <<>>
                    THEN mapping
                    ELSE AddEpisodes(mapping, season_info.episodes, 1)
       IN mapping' = [added EXCEPT !.season_num = @ + 1]
    /\ UNCHANGED tmdb

\* mapping.total_episodes = cumulative; return mapping
BuildEpisodeMappingEnd ==
    /\ mapping.pc = "loop"
    /\ mapping.season_num > mapping.total_seasons
    /\ mapping' = [mapping EXCEPT !.pc = "built", !.total_episodes = mapping.cumulative]
    /\ UNCHANGED tmdb

BuildStep ==
    \/ BuildEpisodeMappingBegin
    \/ BuildSeason
    \/ BuildEpisodeMappingEnd

\* ---------------------------------------------------------------------------
\* Classification: generate_classification (CSV), _execute_classification
\* (rules, v1), analyze_and_classify_v2 with classify_files (rules, v2)
\* ---------------------------------------------------------------------------
\* videos classified into one Classification
MaxFiles == 2
\* subtitles found next to one video when its transfers are planned
MaxPlanSubtitles == 2

VARIABLES
    classification,     \* the Classification of one TMDB id and the operation building it
    plan                \* all_strm_files and all_subtitle_tasks planned from it

cvars == <<classification, plan>>

NoClassification ==
    [operation |-> "none", type |-> "none", seasons |-> <<>>, files |-> <<>>, count |-> 0]

NoPlan == [done |-> FALSE, all_strm_files |-> <<>>, all_subtitle_tasks |-> <<>>]

InitClassification ==
    /\ classification = NoClassification
    /\ plan = NoPlan

\* the language tags of the scanned subtitles of one video, in scan order
PlanLanguages == {"chs", "eng", "kor", "und"}
SubtitleLists == UNION {[1..n -> PlanLanguages] : n \in 0..MaxPlanSubtitles}

\* ClassifiedFile(path=..., episode=..., season=..., subtitles=[...])
ClassifiedFile(path, season, episode, subtitles) ==
    [path |-> path, season |-> season, episode |-> episode, subtitles |-> subtitles]

\* classifications[tmdb_id].files.append(classified_file)
AddToFiles(cls, cf) == [cls EXCEPT !.files = Append(@, cf), !.count = @ + 1]

\* classifications[tmdb_id].seasons[season].append(classified_file), the list
\* being created on first use
AddToSeason(cls, season, cf) ==
    [cls EXCEPT !.seasons = IF season \in DOMAIN @
                            THEN [@ EXCEPT ![season] = Append(@, cf)]
                            ELSE DictSet(@, season, <<cf>>),
                !.count = @ + 1]

ClassifyOperations == {"csv", "v1", "v2"}
MediaTypes == {"tv", "movie"}

\* a classify operation starts with an empty classifications dict; the rule
\* based operations create the Classification with the type of its rules, the
\* CSV operation with the type of the first row of the TMDB id
ClassifyBegin(operation, type) ==
    /\ classification.operation = "none"
    /\ classification' = [NoClassification EXCEPT
                             !.operation = operation,
                             !.type = IF operation = "csv" THEN "none" ELSE type]
    /\ plan' = NoPlan

\* generate_classification: one row file_index,tmdb_id,type,season,episode
GenerateClassificationRow(media_type, infoFound, season, episode, subtitles) ==
    /\ classification.operation = "csv"
    /\ ~plan.done
    /\ LET type == IF classification.type # "none" THEN classification.type
                   ELSE IF infoFound THEN media_type ELSE "tv"
           typed == [classification EXCEPT !.type = type]
           classified_file == ClassifiedFile(classification.count + 1, season, episode, subtitles)
       IN classification' = IF type = "movie" \/ (season = 0 /\ episode = 0)
                            THEN AddToFiles(typed, classified_file)
                            ELSE AddToSeason(typed, season, classified_file)
    /\ plan' = plan

\* TMDBService.get_tv_all_seasons: the seasons with their TMDB numbers and
\* their cumulative ranges, a season without episodes left out
RECURSIVE AllSeasons(_, _, _)
AllSeasons(show, s_num, cumulative) ==
    IF ~show.found \/ s_num > Len(show.seasons) THEN <<>>
    ELSE LET season_info == show.seasons[s_num]
             episodes == season_info.episodes
             ep_count == Len(episodes)
         IN IF ~season_info.loaded \/ ep_count = 0
            THEN AllSeasons(show, s_num + 1, cumulative)
            ELSE <<[season_number |-> s_num,
                    ep_start |-> IF episodes[1] = 0 THEN 1 ELSE episodes[1],
                    ep_end |-> IF episodes[ep_count] = 0 THEN ep_count ELSE episodes[ep_count],
                    ep_start_global |-> cumulative + 1,
                    ep_end_global |-> cumulative + ep_count]>>
                 \o AllSeasons(show, s_num + 1, cumulative + ep_count)

\* _find_season_for_episode: the first season whose range holds ep
FindSeasonForEpisode(seasons, ep, use_global) ==
    LET holds(s) == IF use_global THEN s.ep_start_global <= ep /\ ep <= s.ep_end_global
                    ELSE s.ep_start <= ep /\ ep <= s.ep_end
        hits == {k \in 1..Len(seasons) : holds(seasons[k])}
    IN IF hits = {}
       THEN [found |-> FALSE, season_number |-> 0, tmdb_ep |-> ep]
       ELSE LET s == seasons[CHOOSE k \in hits : \A j \in hits : k <= j]
            IN [found |-> TRUE, season_number |-> s.season_number,
                tmdb_ep |-> IF use_global THEN s.ep_start + (ep - s.ep_start_global) ELSE ep]

Numberings == {"direct", "offset", "global_to_season"}

\* _execute_classification: one video that matches a mapping; the mapping has
\* a fixed season or none, ep is the number extracted from the file name
ExecuteClassificationFile(mapping_type, fixed, season, numbering, offset, ep, subtitles) ==
    /\ classification.operation = "v1"
    /\ ~plan.done
    /\ plan' = plan
    /\ LET path == classification.count + 1
           seasons == AllSeasons(tmdb, 1, 0)
       IN IF mapping_type = "movie"
          THEN classification' = AddToFiles(classification, ClassifiedFile(path, 0, 0, subtitles))
          ELSE /\ ep # 0
               /\ IF fixed
                  THEN LET tmdb_ep == CASE numbering = "direct" -> ep
                                        [] numbering = "offset" -> ep + offset
                                        [] numbering = "global_to_season" ->
                                               FindSeasonForEpisode(seasons, ep, TRUE).tmdb_ep
                                        [] OTHER -> ep
                       IN classification' = AddToSeason(classification, season,
                                                ClassifiedFile(path, season, tmdb_ep, subtitles))
                  ELSE LET use_global == numbering \in {"direct", "global_to_season"}
                           hit == FindSeasonForEpisode(seasons, ep + offset, use_global)
                       IN /\ hit.found
                          /\ classification' = AddToSeason(classification, hit.season_number,
                                                   ClassifiedFile(path, hit.season_number,
                                                                  hit.tmdb_ep, subtitles))

\* the contexts of a v2 mapping rule: the cumulative numbering or one season
Contexts == {[kind |-> "cumulative", season |-> 0]}
            \cup {[kind |-> "season", season |-> s] : s \in 1..MaxSeasons}

\* a lookup that would search a season by the episode_number of TMDB
Lookup_ByTmdbEpisode(m, context, number) ==
    IF context.kind = "cumulative"
    THEN IF number \in DOMAIN m.by_cumulative
         THEN <<m.by_cumulative[number]>> ELSE <<>>
    ELSE LET hits == {k \in DOMAIN m.by_cumulative :
                         /\ m.by_cumulative[k].season = context.season
                         /\ m.by_cumulative[k].tmdb_episode = number}
         IN IF hits = {} THEN <<>> ELSE <<m.by_cumulative[CHOOSE k \in hits : TRUE]>>

\* TMDBMapping.lookup: the EpisodeInfo of a number, none when the table lacks it
Lookup(m, context, number) ==
    IF context.kind = "cumulative"
    THEN IF number \in DOMAIN m.by_cumulative
         THEN <<m.by_cumulative[number]>> ELSE <<>>
    ELSE IF <<context.season, number>> \in DOMAIN m.by_season_episode
         THEN <<m.by_season_episode[<<context.season, number>>]>> ELSE <<>>

\* classify_files and the conversion of analyze_and_classify_v2: one video
\* that matches a mapping rule; number is extracted from the file name
ClassifyFilesFile(media_type, context, number, subtitles) ==
    /\ classification.operation = "v2"
    /\ ~plan.done
    /\ plan' = plan
    /\ LET path == classification.count + 1
       IN IF media_type = "movie"
          THEN classification' = AddToFiles(classification, ClassifiedFile(path, 0, 0, subtitles))
          ELSE /\ mapping.pc = "built"
               /\ number # 0
               /\ Lookup(mapping, context, number) # <<>>
               /\ LET episode_info == Lookup(mapping, context, number)[1]
                      classified_file == ClassifiedFile(path, episode_info.season,
                                                        episode_info.tmdb_episode, subtitles)
                  IN classification' = IF episode_info.season > 0
                                       THEN AddToSeason(classification, episode_info.season,
                                                        classified_file)
                                       ELSE AddToFiles(classification, classified_file)

\* ---------------------------------------------------------------------------
\* generate_strm: the plan of one Classification
\* ---------------------------------------------------------------------------
\* for season_num in sorted(cls.seasons.keys()): the files of the seasons in order
RECURSIVE FilesBySeason(_, _)
FilesBySeason(seasons, keys) ==
    IF keys = {} THEN <<>>
    ELSE LET season_num == CHOOSE k \in keys : \A j \in keys : k <= j
         IN seasons[season_num] \o FilesBySeason(seasons, keys \ {season_num})

\* the subtitle tasks of the files of a movie: no file is skipped
RECURSIVE MovieSubtitleTasks(_, _)
MovieSubtitleTasks(files, i) ==
    IF i > Len(files) THEN <<>>
    ELSE SubtitleTasksOf(files[i]) \o MovieSubtitleTasks(files, i + 1)

\* the planning loop of generate_strm over one Classification
PlanStrmFiles ==
    /\ classification.operation # "none"
    /\ classification.type # "none"
    /\ ~plan.done
    /\ LET files == FilesBySeason(classification.seasons, DOMAIN classification.seasons)
       IN plan' = IF classification.type = "tv"
                  THEN [done |-> TRUE,
                        all_strm_files |-> AllStrmFiles(files, 1),
                        all_subtitle_tasks |-> AllSubtitleTasks(files, 1)]
                  ELSE [done |-> TRUE,
                        all_strm_files |-> [k \in 1..Len(classification.files) |->
                                               <<classification.files[k].path, "strm">>],
                        all_subtitle_tasks |-> MovieSubtitleTasks(classification.files, 1)]
    /\ classification' = classification

\* the classify operations on at most `limit` videos with the given subtitles
ClassifyStep(limit, subtitleLists) ==
    \/ \E operation \in ClassifyOperations, type \in MediaTypes : ClassifyBegin(operation, type)
    \/ \E media_type \in MediaTypes, infoFound \in BOOLEAN, season \in 0..2, episode \in -1..2,
          subtitles \in subtitleLists :
          classification.count < limit
              /\ GenerateClassificationRow(media_type, infoFound, season, episode, subtitles)
    \/ \E mapping_type \in MediaTypes, fixed \in BOOLEAN, season \in 0..2, numbering \in Numberings,
          offset \in -1..1, ep \in 0..4, subtitles \in subtitleLists :
          classification.count < limit
              /\ ExecuteClassificationFile(mapping_type, fixed, season, numbering, offset, ep,
                                           subtitles)
    \/ \E media_type \in MediaTypes, context \in Contexts, number \in 0..4,
          subtitles \in subtitleLists :
          classification.count < limit
              /\ ClassifyFilesFile(media_type, context, number, subtitles)
    \/ PlanStrmFiles

\* ---------------------------------------------------------------------------
\* File names: naming.py and _format_subtitle_name
\* ---------------------------------------------------------------------------
\* characters of a series title
MaxTitleLen == 2

VARIABLES
    naming      \* the names generate_strm gives to the files of one episode

nvars == <<naming>>

NoNaming == [title |-> <<>>, strm_name |-> <<>>, default_sub_name |-> <<>>, sub_name |-> <<>>]

InitNaming == naming = NoNaming

\* a letter, the characters that sanitize_filename rewrites or strips, and a space
TitleChars == {"a", ":", "?", "~", "'", "!", ".", " "}
Titles == UNION {[1..n -> TitleChars] : n \in 1..MaxTitleLen}

\* re.sub(r'[\\/:*?"<>|]', '.', name), then '~' becomes '-'
ReplaceChar(c) ==
    IF c \in {"\\", "/", ":", "*", "?", "\"", "<", ">", "|"} THEN "."
    ELSE IF c = "~" THEN "-"
    ELSE c

NotApostrophe(c) == c # "'"

\* the string without the leading characters of the set
RECURSIVE LStrip(_, _)
LStrip(s, chars) ==
    IF s # <<>> /\ Head(s) \in chars THEN LStrip(Tail(s), chars) ELSE s

\* the string without the trailing characters of the set
RECURSIVE RStrip(_, _)
RStrip(s, chars) ==
    IF s # <<>> /\ s[Len(s)] \in chars THEN RStrip(SubSeq(s, 1, Len(s) - 1), chars) ELSE s

\* re.sub(r'\.{2,}', '.', cleaned)
RECURSIVE MergeDots(_)
MergeDots(s) ==
    IF Len(s) < 2 THEN s
    ELSE IF s[1] = "." /\ s[2] = "." THEN MergeDots(Tail(s))
    ELSE <<s[1]>> \o MergeDots(Tail(s))

\* a sanitation that merges the dots before it replaces the forbidden characters
SanitizeFilename_MergesFirst(name) ==
    LET merged == MergeDots(name)
        replaced == [i \in 1..Len(merged) |-> ReplaceChar(merged[i])]
        unquoted == SelectSeq(replaced, NotApostrophe)
        unbanged == LStrip(RStrip(unquoted, {"!"}), {"!"})
    IN LStrip(RStrip(unbanged, {".", " "}), {".", " "})

\* sanitize_filename
SanitizeFilename(name) ==
    LET replaced == [i \in 1..Len(name) |-> ReplaceChar(name[i])]
        unquoted == SelectSeq(replaced, NotApostrophe)
        unbanged == LStrip(RStrip(unquoted, {"!"}), {"!"})
        merged == MergeDots(unbanged)
    IN LStrip(RStrip(merged, {".", " "}), {".", " "})

\* f"{n:02d}"
TwoDigits(n) == IF n < 10 THEN <<"0", ToString(n)>> ELSE <<ToString(n)>>

\* f".S{season:02d}.E{episode:02d}"
EpisodeTag(season, episode) ==
    <<".", "S">> \o TwoDigits(season) \o <<".", "E">> \o TwoDigits(episode)

\* format_episode_name
FormatEpisodeName(title, season, episode, ext) ==
    SanitizeFilename(title) \o EpisodeTag(season, episode) \o <<ext>>

\* format_strm_episode_name
FormatStrmEpisodeName(title, season, episode) ==
    FormatEpisodeName(title, season, episode, ".strm")

\* _format_subtitle_name: the title goes into the name as it is given
FormatSubtitleName(title, season, episode, language, ext, is_default) ==
    IF is_default
    THEN title \o EpisodeTag(season, episode) \o <<ext>>
    ELSE title \o EpisodeTag(season, episode) \o <<".", language>> \o <<ext>>

SubtitleExtensions == {".srt", ".ass"}

\* the names of the STRM file, the default subtitle and a tagged subtitle of
\* one episode, as generate_strm forms them from the series title
FormatNames(title, season, episode, language, ext) ==
    naming' = [title |-> title,
               strm_name |-> FormatStrmEpisodeName(title, season, episode),
               default_sub_name |-> FormatSubtitleName(title, season, episode, language, ext, TRUE),
               sub_name |-> FormatSubtitleName(title, season, episode, language, ext, FALSE)]

NamingStep ==
    \E title \in Titles, season \in {1}, episode \in {1, 12}, language \in {"chs"},
       ext \in SubtitleExtensions :
       FormatNames(title, season, episode, language, ext)

\* ---------------------------------------------------------------------------
\* The classifier: classify_files and classify_file
\* ---------------------------------------------------------------------------
\* rules of one mappings list
MaxRules == 2

VARIABLES
    classified  \* the file and the rules of the last classify_files call, and its ClassifyResult

rvars == <<classified>>

\* ClassifyResult(file_path, file_name): the defaults of the dataclass
ClassifyResult(status, extracted_number, tmdb_id, season, episode) ==
    [status |-> status, extracted_number |-> extracted_number, tmdb_id |-> tmdb_id,
     season |-> season, episode |-> episode]

PendingResult == ClassifyResult("pending", 0, 0, 0, 0)

NoClassified == [file |-> <<>>, mappings |-> <<>>, result |-> PendingResult]

InitRules == classified = NoClassified

\* str.lower() of one character
LowerChar(c) == IF c = "A" THEN "a" ELSE IF c = "B" THEN "b" ELSE c

\* str.lower()
Lower(s) == [i \in 1..Len(s) |-> LowerChar(s[i])]

\* `pattern in text` of two strings
Contains(text, pattern) ==
    \E i \in 0..(Len(text) - Len(pattern)) : SubSeq(text, i + 1, i + Len(pattern)) = pattern

\* the test of one mapping against a file: path_pattern within the path, or
\* file_pattern within the name, an empty pattern never
RuleMatches(m, file) ==
    \/ m.path_pattern # <<>> /\ Contains(Lower(file.path), Lower(m.path_pattern))
    \/ m.file_pattern # <<>> /\ Contains(Lower(file.name), Lower(m.file_pattern))

\* a loop without the break: the last mapping that matches
RECURSIVE MatchedMapping_LastMatch(_, _, _)
MatchedMapping_LastMatch(mappings, file, i) ==
    IF i > Len(mappings) THEN 0
    ELSE LET later == MatchedMapping_LastMatch(mappings, file, i + 1)
         IN IF later # 0 THEN later
            ELSE IF RuleMatches(mappings[i], file) THEN i ELSE 0

\* for m in mappings: ... matched_mapping = m; break. The position of the
\* matched mapping from i on, 0 for None
RECURSIVE MatchedMapping(_, _, _)
MatchedMapping(mappings, file, i) ==
    IF i > Len(mappings) THEN 0
    ELSE IF RuleMatches(mappings[i], file) THEN i
    ELSE MatchedMapping(mappings, file, i + 1)

\* tmdb_mappings.get(tmdb_id): the table built for the show 1, none for another id
\* or after a failed build
HasTmdbMapping(tmdb_id) == tmdb_id = 1 /\ mapping.pc = "built"

\* a classifier that would place a number the table lacks by the number itself
ClassifyFile_GuessesPlacement(file, context, tmdb_id) ==
    IF file.number = 0
    THEN ClassifyResult("error", 0, 0, 0, 0)
    ELSE LET episode_info == Lookup(mapping, context, file.number)
         IN IF episode_info = <<>>
            THEN ClassifyResult("matched", file.number, tmdb_id,
                                IF context.kind = "season" THEN context.season ELSE 1, file.number)
            ELSE ClassifyResult("matched", file.number, tmdb_id, episode_info[1].season,
                                episode_info[1].tmdb_episode)

\* classify_file
ClassifyFile(file, context, tmdb_id) ==
    IF file.number = 0
    THEN ClassifyResult("error", 0, 0, 0, 0)
    ELSE LET episode_info == Lookup(mapping, context, file.number)
         IN IF episode_info = <<>>
            THEN ClassifyResult("unmatched", file.number, 0, 0, 0)
            ELSE ClassifyResult("matched", file.number, tmdb_id, episode_info[1].season,
                                episode_info[1].tmdb_episode)

\* the body of the loop of classify_files for one file
ClassifyOneFile(file, mappings) ==
    LET matched_mapping == MatchedMapping(mappings, file, 1)
    IN IF matched_mapping = 0
       THEN ClassifyResult("unmatched", 0, 0, 0, 0)
       ELSE LET m == mappings[matched_mapping]
            IN IF m.media_type = "movie"
               THEN ClassifyResult("matched", 0, m.tmdb_id, 0, 0)
               ELSE IF ~HasTmdbMapping(m.tmdb_id)
               THEN ClassifyResult("error", 0, 0, 0, 0)
               ELSE ClassifyFile(file, m.context, m.tmdb_id)

\* the characters of paths and patterns
PathPatterns == {<<>>, <<"a">>}
FilePatterns == {<<>>, <<"B">>}

\* what a rule decides: a season or the cumulative numbering of the show 1, the
\* cumulative numbering of a show without a table, or a movie
RuleTargets ==
    {[tmdb_id |-> 1, context |-> c, media_type |-> "tv"] : c \in Contexts}
    \cup {[tmdb_id |-> 2, context |-> [kind |-> "cumulative", season |-> 0], media_type |-> "tv"],
          [tmdb_id |-> 3, context |-> [kind |-> "cumulative", season |-> 0], media_type |-> "movie"]}

Rules ==
    {[path_pattern |-> p, file_pattern |-> f, tmdb_id |-> t.tmdb_id, context |-> t.context,
      media_type |-> t.media_type] : p \in PathPatterns, f \in FilePatterns, t \in RuleTargets}

RuleLists == UNION {[1..n -> Rules] : n \in 0..MaxRules}

\* video files: a directory and a name, and the number extract_episode_number
\* finds in the name (0: none)
ClassifyInputs ==
    {[path |-> <<d, "/", n>>, name |-> <<n>>, number |-> k] :
        d \in {"A", "c"}, n \in {"b", "c"}, k \in 0..(MaxEpisodes + 1)}

\* classify_files for one file of the list
ClassifyFiles(file, mappings) ==
    /\ mapping.pc \in {"built", "failed"}
    /\ classified.result.status = "pending"
    /\ classified' = [file |-> file, mappings |-> mappings,
                      result |-> ClassifyOneFile(file, mappings)]

RulesStep ==
    /\ classified.result.status = "pending"
    /\ \E file \in ClassifyInputs, mappings \in RuleLists : ClassifyFiles(file, mappings)

\* ---------------------------------------------------------------------------
\* organize_files: the moves and the copy of one classified episode
\* ---------------------------------------------------------------------------
VARIABLES
    org         \* the locals of the organize_files loop and the copies the store still owes

ovars == <<org>>

NoOrganize ==
    [pc |-> "idle", variant |-> "", subtitles |-> <<>>, i |-> 0, ops |-> <<>>,
     season_success |-> 0, season_error |-> 0,
     season_subtitle_success |-> 0, season_subtitle_error |-> 0,
     pending |-> {}, copy_read |-> "none"]

InitOrganize == org = NoOrganize

\* the directory of the scanned files and the season directory
SourceDir == "/a"
SeasonDir == "/b"

\* cf.path and sub.path of the subtitle at position k
VideoPath == [dir |-> SourceDir, name |-> "video"]
SubtitlePath(k) == [dir |-> SourceDir, name |-> IF k = 1 THEN "sub1" ELSE IF k = 2 THEN "sub2" ELSE "sub3"]

\* new_path, default_sub_path and sub_new_path: the tagged name carries the language
NewPath == [dir |-> SeasonDir, name |-> "ep.mkv"]
DefaultSubPath == [dir |-> SeasonDir, name |-> "ep.srt"]
SubNewPath(language) ==
    [dir |-> SeasonDir,
     name |-> IF language = "chs" THEN "ep.chs.srt"
              ELSE IF language = "eng" THEN "ep.eng.srt"
              ELSE IF language = "kor" THEN "ep.kor.srt"
              ELSE "ep.und.srt"]

\* the position of the subtitle that _select_default_subtitle returns
DefaultSubtitleIndex(subtitles) ==
    CHOOSE k \in 1..Len(subtitles) :
        \A j \in 1..Len(subtitles) :
            \/ LanguagePriority(subtitles[k]) < LanguagePriority(subtitles[j])
            \/ LanguagePriority(subtitles[k]) = LanguagePriority(subtitles[j]) /\ k <= j

\* what the season directory can hold before organize starts
ExistingTargets == SUBSET {NewPath.name, SubNewPath("chs").name}

\* organize_files reaches a classified episode (episode > 0) of a season
OrganizeBegin(variant, subtitles, existing) ==
    /\ org.pc = "idle"
    /\ org' = [NoOrganize EXCEPT !.pc = "video", !.variant = variant, !.subtitles = subtitles]
    /\ server' = [server EXCEPT
                     ![SourceDir] = {VideoPath.name} \cup {SubtitlePath(k).name : k \in 1..Len(subtitles)},
                     ![SeasonDir] = existing]
    /\ token' = TRUE
    /\ aop' = IdleOp
    /\ NoListCall
    /\ creq' = NoRequests
    /\ UNCHANGED <<now, cache, bres>>

\* WebDAVService.move_file: client.move(..., overwrite=False) returns or raises
WebDavMoveFile(src, dst, answer) ==
    /\ answer = "ok" => CanPlace(server, src.dir, src.name, dst.dir, dst.name)
    /\ server' = IF answer = "ok" THEN Placed(server, src.dir, src.name, dst.dir, dst.name)
                 ELSE server
    /\ aop' = Done("move", dst.dir, IF answer = "ok" THEN "true" ELSE "raised")
    /\ NoListCall
    /\ creq' = NoRequests
    /\ UNCHANGED <<token, now, cache, bres>>

\* WebDAVService has no copy_file: the call raises AttributeError and no
\* request is sent
WebDavCopyFile(src, dst) ==
    /\ aop' = Done("copy", dst.dir, "raised")
    /\ NoListCall
    /\ creq' = NoRequests
    /\ UNCHANGED <<token, server, now, cache, bres>>

\* try: service.move_file(...); success += 1; except Exception: error += 1
\* the counters and the log after an operation on an item
CountedOperation(o, op, item, requested, result, success, error) ==
    [o EXCEPT !.ops = Append(@, [op |-> op, item |-> item, sent |-> requested, result |-> result]),
              ![success] = IF result # "raised" THEN @ + 1 ELSE @,
              ![error] = IF result = "raised" THEN @ + 1 ELSE @]

\* service.move_file(cf.path, new_path)
OrganizeMoveVideo(r1, r2) ==
    /\ org.pc = "video"
    /\ IF org.variant = "alist"
       THEN MoveFile(VideoPath, NewPath, TRUE, r1, r2)
       ELSE r2 = "ok" /\ WebDavMoveFile(VideoPath, NewPath, r1)
    /\ org' = [CountedOperation(org, "move", 0, TRUE, aop'.result, "season_success", "season_error")
                  EXCEPT !.pc = IF org.subtitles = <<>> THEN "done" ELSE "default"]

\* service.copy_file(default_sub.path, default_sub_path)
OrganizeCopyDefault(r1, landed, r2) ==
    /\ org.pc = "default"
    /\ LET k == DefaultSubtitleIndex(org.subtitles)
       IN /\ IF org.variant = "alist"
             THEN CopyFile(SubtitlePath(k), DefaultSubPath, TRUE, r1, landed, r2)
             ELSE r1 = "ok" /\ landed /\ r2 = "ok" /\ WebDavCopyFile(SubtitlePath(k), DefaultSubPath)
          /\ org' = [CountedOperation(org, "copy", k, org.variant = "alist", aop'.result,
                                      "season_subtitle_success", "season_subtitle_error")
                        EXCEPT !.pc = "subs", !.i = 1,
                               !.pending = IF org.variant = "alist" /\ r1 = "ok" /\ ~landed
                                           THEN {k} ELSE {}]

\* for sub in cf.subtitles: service.move_file(sub.path, sub_new_path)
OrganizeMoveSubtitle(r1, r2) ==
    /\ org.pc = "subs"
    /\ org.i <= Len(org.subtitles)
    /\ IF org.variant = "alist"
       THEN MoveFile(SubtitlePath(org.i), SubNewPath(org.subtitles[org.i]), TRUE, r1, r2)
       ELSE r2 = "ok" /\ WebDavMoveFile(SubtitlePath(org.i), SubNewPath(org.subtitles[org.i]), r1)
    /\ org' = [CountedOperation(org, "move", org.i, TRUE, aop'.result,
                                "season_subtitle_success", "season_subtitle_error")
                  EXCEPT !.i = @ + 1]

\* the loop over the subtitles ends
OrganizeEnd ==
    /\ org.pc = "subs"
    /\ org.i > Len(org.subtitles)
    /\ org' = [org EXCEPT !.pc = "done"]
    /\ UNCHANGED avars

\* the Alist server runs a copy it accepted and that copy_file stopped waiting
\* for: it reads the source now
CopyTaskRuns ==
    /\ org.pending # {}
    /\ \E k \in org.pending :
          /\ org' = [org EXCEPT !.pending = @ \ {k},
                                !.copy_read = IF SubtitlePath(k).name \in server[SourceDir]
                                              THEN "present" ELSE "missing"]
          /\ server' = IF SubtitlePath(k).name \in server[SourceDir]
                       THEN [server EXCEPT ![SeasonDir] = @ \cup {SubtitlePath(k).name}]
                       ELSE server
    /\ UNCHANGED <<token, now, cache, lpc, lpath, attempt, log, sleeps, lresult, aop, creq, bres>>

OrganizeStep ==
    \/ \E variant \in Variants, subtitles \in SubtitleLists, existing \in ExistingTargets :
          OrganizeBegin(variant, subtitles, existing)
    \/ \E r1, r2 \in Answers : OrganizeMoveVideo(r1, r2)
    \/ \E r1, r2 \in Answers, landed \in BOOLEAN : OrganizeCopyDefault(r1, landed, r2)
    \/ \E r1, r2 \in Answers : OrganizeMoveSubtitle(r1, r2)
    \/ OrganizeEnd
    \/ CopyTaskRuns

\* ---------------------------------------------------------------------------
\* scan_media_files: the traversal of scan_directory
\* ---------------------------------------------------------------------------
\* the largest max_depth a scan is called with
MaxScanDepth == 3

VARIABLES
    scan        \* the arguments of the last scan_media_files call and what its traversal did

wvars == <<scan>>

\* video_files, subtitle_files and scanned_dirs before the traversal; listed
\* and skipped are the list_directory calls made and the directories skipped
NoTraversal ==
    [video_files |-> <<>>, subtitle_files |-> <<>>, scanned_dirs |-> 0,
     listed |-> <<>>, skipped |-> <<>>]

NoScan ==
    [done |-> FALSE, raised |-> FALSE, max_depth |-> 0, recursive |-> FALSE, max_files |-> 0,
     failing |-> {}, traversal |-> NoTraversal]

InitScan == scan = NoScan

EntryDir == "/"

Item(path, is_dir, file_type) == [path |-> path, is_dir |-> is_dir, file_type |-> file_type]

\* what list_directory returns for the directories of the store, in its order:
\* get_file_type gives video, subtitle or other for a file
ScanTree ==
    [d \in {"/", "/s1", "/s2", "/s1/x", "/s1/x/y"} |->
        IF d = "/"
        THEN <<Item("/s1", TRUE, ""), Item("/v0.mkv", FALSE, "video"),
               Item("/v0.srt", FALSE, "subtitle"), Item("/s2", TRUE, ""),
               Item("/n.txt", FALSE, "other")>>
        ELSE IF d = "/s1"
        THEN <<Item("/s1/v1.mkv", FALSE, "video"), Item("/s1/x", TRUE, "")>>
        ELSE IF d = "/s1/x"
        THEN <<Item("/s1/x/v2.srt", FALSE, "subtitle"), Item("/s1/x/y", TRUE, "")>>
        ELSE IF d = "/s1/x/y"
        THEN <<Item("/s1/x/y/v3.mkv", FALSE, "video")>>
        ELSE <<Item("/s2/v4.mkv", FALSE, "video"), Item("/s2/v4.srt", FALSE, "subtitle")>>]

\* a depth test that would let one more level through
TooDeep_OneMoreLevel(depth, max_depth) == depth > max_depth + 1

\* if depth > max_depth: return
TooDeep(depth, max_depth) == depth > max_depth

\* if max_files > 0 and total_files >= max_files: return
CapReached(st, max_files) ==
    max_files > 0 /\ Len(st.video_files) + Len(st.subtitle_files) >= max_files

\* the file branch of the loop over the items
AddFile(st, item) ==
    IF item.file_type = "video" THEN [st EXCEPT !.video_files = Append(@, item.path)]
    ELSE IF item.file_type = "subtitle" THEN [st EXCEPT !.subtitle_files = Append(@, item.path)]
    ELSE st

RECURSIVE ScanDirectory_StopsAfterFailure(_, _, _, _)
RECURSIVE ScanDirectory(_, _, _, _)
RECURSIVE ScanItems(_, _, _, _, _)

\* a traversal that would list nothing more once a directory has failed
ScanDirectory_StopsAfterFailure(st, dir_path, depth, args) ==
    IF TooDeep(depth, args.max_depth) \/ st.skipped # <<>> THEN st
    ELSE IF CapReached(st, args.max_files) THEN st
    ELSE IF dir_path \in args.failing
    THEN [st EXCEPT !.listed = Append(@, dir_path), !.skipped = Append(@, dir_path)]
    ELSE ScanItems([st EXCEPT !.listed = Append(@, dir_path), !.scanned_dirs = @ + 1],
                   ScanTree[dir_path], 1, depth, args)

\* scan_directory(dir_path, depth): a listing that raises is caught in the
\* call of its own directory
ScanDirectory(st, dir_path, depth, args) ==
    IF TooDeep(depth, args.max_depth) THEN st
    ELSE IF CapReached(st, args.max_files) THEN st
    ELSE IF dir_path \in args.failing
    THEN [st EXCEPT !.listed = Append(@, dir_path), !.skipped = Append(@, dir_path)]
    ELSE ScanItems([st EXCEPT !.listed = Append(@, dir_path), !.scanned_dirs = @ + 1],
                   ScanTree[dir_path], 1, depth, args)

\* for item in items, from the item at position i on
ScanItems(st, items, i, depth, args) ==
    IF i > Len(items) THEN st
    ELSE IF CapReached(st, args.max_files) THEN st
    ELSE LET item == items[i]
             after == IF item.is_dir /\ args.recursive
                      THEN ScanDirectory(st, item.path, depth + 1, args)
                      ELSE IF ~item.is_dir THEN AddFile(st, item)
                      ELSE st
         IN ScanItems(after, items, i + 1, depth, args)

\* the caps on the number of files a scan is called with
MaxFilesChoices == {0, 2}

\* scan_media_files on a store whose directories in `failing` do not list
ScanTraversal(max_depth, recursive, max_files, failing) ==
    /\ ~scan.done
    /\ LET args == [max_depth |-> max_depth, recursive |-> recursive, max_files |-> max_files,
                    failing |-> failing]
       IN scan' = [done |-> TRUE, raised |-> FALSE, max_depth |-> max_depth,
                   recursive |-> recursive, max_files |-> max_files, failing |-> failing,
                   traversal |-> ScanDirectory(NoTraversal, EntryDir, 0, args)]

ScanStep ==
    \E max_depth \in 0..MaxScanDepth, recursive \in BOOLEAN, max_files \in MaxFilesChoices,
       failing \in SUBSET DOMAIN ScanTree :
       ScanTraversal(max_depth, recursive, max_files, failing)

\* ---------------------------------------------------------------------------
\* set_user_config: the user_config dict key by key
\* ---------------------------------------------------------------------------
VARIABLES
    prefs       \* state["user_config"] before and after the last set_user_config call

qvars == <<prefs>>

\* a dict of user_config: <<>> for a key the dict does not hold, <<v>> for its value
NoUserConfig ==
    [scan_delay |-> <<>>, upload_delay |-> <<>>, naming_language |-> <<>>, use_copy |-> <<>>]

NoPrefs == [called |-> FALSE, changes |-> 0, before |-> NoUserConfig, user_config |-> NoUserConfig]

InitPrefs == prefs = NoPrefs

\* current_config.get(key, default)
DictGet(d, key, default) == IF d[key] = <<>> THEN default ELSE d[key][1]

\* the arguments of set_user_config; -1, "" and "None" leave a key as it is
DelayArguments == {-1, 0, 1}
LanguageArguments == {"", "en"}
CopyArguments == {"None", "True", "False"}

\* the number of arguments that ask for a change
ChangesOf(scan_delay, upload_delay, naming_language, use_copy) ==
    (IF scan_delay >= 0 THEN 1 ELSE 0) + (IF upload_delay >= 0 THEN 1 ELSE 0)
    + (IF naming_language # "" THEN 1 ELSE 0) + (IF use_copy # "None" THEN 1 ELSE 0)

\* new_config: the four keys with the current values or the defaults, then
\* the arguments that ask for a change
NewConfig(current_config, scan_delay, upload_delay, naming_language, use_copy) ==
    [scan_delay |-> <<IF scan_delay >= 0 THEN scan_delay
                      ELSE DictGet(current_config, "scan_delay", 0)>>,
     upload_delay |-> <<IF upload_delay >= 0 THEN upload_delay
                        ELSE DictGet(current_config, "upload_delay", 0)>>,
     naming_language |-> <<IF naming_language # "" THEN naming_language
                           ELSE DictGet(current_config, "naming_language", "zh")>>,
     use_copy |-> <<IF use_copy # "None" THEN use_copy
                    ELSE DictGet(current_config, "use_copy", "True")>>]

\* set_user_config and the merge of its state_update {"user_config": new_config}
SetUserConfigDict(scan_delay, upload_delay, naming_language, use_copy) ==
    prefs' = [called |-> TRUE,
              changes |-> ChangesOf(scan_delay, upload_delay, naming_language, use_copy),
              before |-> prefs.user_config,
              user_config |-> NewConfig(prefs.user_config, scan_delay, upload_delay,
                                        naming_language, use_copy)]

PrefsStep ==
    \E scan_delay \in DelayArguments, upload_delay \in DelayArguments,
       naming_language \in LanguageArguments, use_copy \in CopyArguments :
       SetUserConfigDict(scan_delay, upload_delay, naming_language, use_copy)

\* ---------------------------------------------------------------------------
\* LRUCache on its own: the directory cache of one AlistService at its
\* configured capacity
\* ---------------------------------------------------------------------------
MaxLruOps == 3
MaxProbeKeys == 2
MaxLruTicks == 1

VARIABLES
    lru         \* one LRUCache: its OrderedDict (oldest first), the clock, and the last call

kvars == <<lru>>

NoLruCall == [op |-> "", key |-> 0, hit |-> FALSE]

\* used[k] is the number of the call that last used key k (0: never used)
InitLru ==
    lru = [cache |-> <<>>, now |-> 0, fresh |-> 1, calls |-> 0, ops |-> 0, ticks |-> 0,
           used |-> [k \in 1..(DEFAULT_CACHE_SIZE + MaxLruOps + 1) |-> 0],
           last |-> NoLruCall]

LruKeys(c) == {c[i].key : i \in 1..Len(c)}

\* the cache has been filled once by listings of distinct directories
WarmedUp == lru.fresh > DEFAULT_CACHE_SIZE

\* the keys a call may name: a key of an early listing, or one never seen
ProbeKeys == 1..MaxProbeKeys

\* LRUCache.get(key)
LruGetCall(k) ==
    /\ WarmedUp /\ lru.ops < MaxLruOps
    /\ LET g == LRUGet(lru.cache, k, lru.now, DEFAULT_CACHE_TTL)
       IN lru' = [lru EXCEPT !.cache = g.cache,
                             !.calls = @ + 1, !.ops = @ + 1,
                             !.used[k] = IF g.hit THEN lru.calls + 1 ELSE @,
                             !.last = [op |-> "get", key |-> k, hit |-> g.hit]]

\* LRUCache.set(key, value)
LruSetCall(k) ==
    /\ \/ ~WarmedUp /\ k = lru.fresh
       \/ WarmedUp /\ lru.ops < MaxLruOps
    /\ lru' = [lru EXCEPT !.cache = LRUSet(lru.cache, k, {}, lru.now, DEFAULT_CACHE_SIZE),
                          !.calls = @ + 1,
                          !.ops = IF WarmedUp THEN @ + 1 ELSE @,
                          !.fresh = IF k = lru.fresh THEN @ + 1 ELSE @,
                          !.used[k] = lru.calls + 1,
                          !.last = [op |-> "set", key |-> k, hit |-> LRUHas(lru.cache, k)]]

\* time.time() moves past the ttl of everything cached so far
LruClock ==
    /\ WarmedUp /\ lru.ticks < MaxLruTicks
    /\ lru' = [lru EXCEPT !.now = @ + DEFAULT_CACHE_TTL + 1, !.ticks = @ + 1]

LruStep ==
    \/ \E k \in ProbeKeys : LruGetCall(k)
    \/ \E k \in ProbeKeys \cup {lru.fresh} : LruSetCall(k)
    \/ LruClock

\* ---------------------------------------------------------------------------
\* sanitize_filename on its own, over every short string of its alphabet
\* ---------------------------------------------------------------------------
MaxNameLen == 4

VARIABLES
    sanitized   \* the argument and the result of the last sanitize_filename call

zvars == <<sanitized>>

NoSanitized == [called |-> FALSE, name |-> <<>>, cleaned |-> <<>>]

InitSanitized == sanitized = NoSanitized

\* the nine characters that Windows forbids
IllegalChars == {"\\", "/", ":", "*", "?", "\"", "<", ">", "|"}

\* the forbidden characters, the dot, a letter, and the two characters whose
\* removal can bring two dots together
NameChars == IllegalChars \cup {".", "a", "'", "!"}
RawNames == UNION {[1..n -> NameChars] : n \in 0..MaxNameLen}

\* sanitize_filename(name)
SanitizeCall(name) ==
    sanitized' = [called |-> TRUE, name |-> name, cleaned |-> SanitizeFilename(name)]

SanitizeStep == ~sanitized.called /\ \E name \in RawNames : SanitizeCall(name)

\* ---------------------------------------------------------------------------
\* Cancellation: what a caller can raise while an operation runs
\* ---------------------------------------------------------------------------
VARIABLES
    signal      \* the cancellation the caller has raised for the running operation

uvars == <<signal>>

NoSignal == [raised |-> FALSE, stage |-> ""]

InitSignal == signal = NoSignal

\* the stages of an upload run whose statement starts network calls
NetworkStages == {"strm", "subs", "batch", "pipeline", "refresh"}

\* the caller raises the cancellation while generate_strm is running; the tool
\* has no parameter for it and nothing in the run reads it
RaiseCancellation ==
    /\ gpc # "idle"
    /\ ~signal.raised
    /\ signal' = [raised |-> TRUE, stage |-> gpc]

\* a signal belongs to one operation: it is gone when the operation has returned
SignalAfterStep == signal' = IF gpc' = "idle" THEN NoSignal ELSE signal

\* ---------------------------------------------------------------------------
\* generate_strm: the target paths of the planned files of one Classification
\* (one title, one year, one base folder)
\* ---------------------------------------------------------------------------
\* f"{base_folder}/{season_folder}/{strm_name}" of an episode, and
\* f"{base_folder}/{strm_name}" of a movie file, whose name is made of the
\* title and the year alone
StrmPath(type, season_num, episode) ==
    IF type = "tv" THEN <<"tv", season_num, episode, ".strm">> ELSE <<"movie", ".strm">>

\* the paths of the default subtitle and of the tagged subtitles of one video,
\* the subtitles having one extension
SubtitlePaths(type, season_num, cf) ==
    IF cf.subtitles = <<>> THEN <<>>
    ELSE <<IF type = "tv" THEN <<"tv", season_num, cf.episode, "">> ELSE <<"movie", "">> >>
         \o [k \in 1..Len(cf.subtitles) |->
                IF type = "tv" THEN <<"tv", season_num, cf.episode, cf.subtitles[k]>>
                ELSE <<"movie", cf.subtitles[k]>>]

\* for cf in files: the STRM paths of the files of one season, a file with
\* episode <= 0 being skipped
RECURSIVE SeasonStrmPaths(_, _, _)
SeasonStrmPaths(files, season_num, i) ==
    IF i > Len(files) THEN <<>>
    ELSE (IF files[i].episode <= 0 THEN <<>>
          ELSE <<StrmPath("tv", season_num, files[i].episode)>>)
         \o SeasonStrmPaths(files, season_num, i + 1)

RECURSIVE SeasonSubtitlePaths(_, _, _)
SeasonSubtitlePaths(files, season_num, i) ==
    IF i > Len(files) THEN <<>>
    ELSE (IF files[i].episode <= 0 THEN <<>> ELSE SubtitlePaths("tv", season_num, files[i]))
         \o SeasonSubtitlePaths(files, season_num, i + 1)

RECURSIVE MovieSubtitlePaths(_, _)
MovieSubtitlePaths(files, i) ==
    IF i > Len(files) THEN <<>>
    ELSE SubtitlePaths("movie", 0, files[i]) \o MovieSubtitlePaths(files, i + 1)

\* the target paths of all_strm_files, in the order of the plan
RECURSIVE StrmTargets(_, _)
StrmTargets(cls, keys) ==
    IF cls.type # "tv"
    THEN [k \in 1..Len(cls.files) |-> StrmPath("movie", 0, 0)]
    ELSE IF keys = {} THEN <<>>
    ELSE LET season_num == CHOOSE k \in keys : \A j \in keys : k <= j
         IN SeasonStrmPaths(cls.seasons[season_num], season_num, 1)
                \o StrmTargets(cls, keys \ {season_num})

\* the target paths of all_subtitle_tasks, in the order of the plan
RECURSIVE SubtitleTargets(_, _)
SubtitleTargets(cls, keys) ==
    IF cls.type # "tv"
    THEN MovieSubtitlePaths(cls.files, 1)
    ELSE IF keys = {} THEN <<>>
    ELSE LET season_num == CHOOSE k \in keys : \A j \in keys : k <= j
         IN SeasonSubtitlePaths(cls.seasons[season_num], season_num, 1)
                \o SubtitleTargets(cls, keys \ {season_num})

\* the variables of the rate gate, the classification, the names, the
\* classifier, organize, the scan, the preferences, the cache on its own and the
\* name sanitation, the cancellation signal, and their start
xvars == <<gvars, mvars, cvars, nvars, rvars, ovars, wvars, qvars, kvars, zvars, uvars>>

InitMore ==
    /\ InitGate /\ InitMapping /\ InitClassification /\ InitNaming /\ InitRules /\ InitOrganize
    /\ InitScan /\ InitPrefs /\ InitLru /\ InitSanitized /\ InitSignal

\* ---------------------------------------------------------------------------
\* The environment of the Alist client
\* ---------------------------------------------------------------------------
InitAlistVars ==
    /\ token = FALSE
    /\ now = 0
    /\ cache = <<>>
    /\ server \in [Dirs -> SUBSET Names]
    /\ lpc = "idle"
    /\ lpath = NoDir
    /\ attempt = 0
    /\ log = <<>>
    /\ sleeps = <<>>
    /\ lresult = NoResult
    /\ aop = IdleOp
    /\ creq = NoRequests
    /\ bres = NoBatch

\* the login answer matters only to a client without a token
LoginAnswers == IF token THEN {TRUE} ELSE BOOLEAN

SteadyScripts == {[i \in 1..MAX_RETRIES |-> a] : a \in StoreAnswers}

ListStep(responses, logins) ==
    \/ \E d \in Dirs, loginOk \in logins : ListBegin(d, loginOk)
    \/ \E resp \in responses :
          \E loginOk \in (IF resp = "auth401" THEN BOOLEAN ELSE {TRUE}) : ListAttempt(resp, loginOk)

MutationStep(answers, logins) ==
    \/ \E p \in Paths, loginOk \in logins, script \in SteadyScripts : PutFileContent(p, loginOk, script)
    \/ \E src \in Paths, dst \in Paths, loginOk \in logins, r1 \in answers :
          \E r2 \in (IF src.dir # dst.dir /\ src.name # dst.name /\ r1 # "exception"
                     THEN answers ELSE {"fail"}) :
             src # dst /\ MoveFile(src, dst, loginOk, r1, r2)
    \/ \E src \in Paths, dst \in Paths, loginOk \in logins, r1 \in answers :
          \E landed \in (IF r1 = "ok" THEN BOOLEAN ELSE {FALSE}) :
             \E r2 \in (IF src.name # dst.name /\ r1 = "ok" THEN answers ELSE {"fail"}) :
                src # dst /\ CopyFile(src, dst, loginOk, r1, landed, r2)
    \/ \E p \in Paths, loginOk \in logins, r \in answers : DeleteFile(p, loginOk, r)
    \/ \E p \in Paths, loginOk \in logins, r \in answers \cup {"exists"} : CreateDirectory(p, loginOk, r)
    \/ \E d \in Dirs, loginOk \in logins, r \in answers : RefreshDirectoryAsync(d, loginOk, r)

ContentStep ==
    \/ \E p \in Paths, loginOk \in LoginAnswers, script \in Scripts : PutFileContentAsync(p, loginOk, script)
    \/ \E p \in Paths, loginOk \in LoginAnswers, urlOk \in BOOLEAN, script \in Scripts :
          GetFileContentAsync(p, loginOk, urlOk, script)

BatchStep ==
    \E files \in BatchFiles, loginOk \in LoginAnswers :
       \E answers \in [1..Len(files) -> UploadAnswers] : UploadFilesBatchAsync(files, loginOk, answers)

\* ---------------------------------------------------------------------------
\* Specifications
\* ---------------------------------------------------------------------------
vars == <<avars, svars, pvars, xvars>>

InitSession ==
    /\ session = EmptySession
    /\ reply = NoReply
    /\ gpc = "idle"
    /\ run = NoRun
    /\ retried = NoRetry

InitPipe == pipe = NoPipe

Init == InitAlistVars /\ InitSession /\ InitPipe /\ InitMore

\* list calls against a store that answers in every way it can
NextAlist ==
    \/ ListStep(ListResponses, LoginAnswers) /\ UNCHANGED <<svars, pvars, xvars>>
    \/ Tick /\ UNCHANGED <<svars, pvars, xvars>>

SpecAlist == Init /\ [][NextAlist]_vars

\* list calls and mutations against a store that accepts the login and
\* answers each request with success or with a refusal
NextCache ==
    \/ ListStep({"ok", "http_error"}, {TRUE}) /\ UNCHANGED <<svars, pvars, xvars>>
    \/ MutationStep({"ok", "fail"}, {TRUE}) /\ UNCHANGED <<svars, pvars, xvars>>
    \/ Tick /\ UNCHANGED <<svars, pvars, xvars>>

SpecCache == Init /\ [][NextCache]_vars

NextContent == ContentStep /\ UNCHANGED <<svars, pvars, xvars>>

SpecContent == Init /\ [][NextContent]_vars

NextBatch == BatchStep /\ UNCHANGED <<svars, pvars, xvars>>

SpecBatch == Init /\ [][NextBatch]_vars

\* the session of one user against an empty store
InitEmptyStore == Init /\ server = [d \in Dirs |-> {}]

\* the steps of a generate_strm upload run, for the given answers of the stores
UploadRunStep(puts, outcomes, logins) ==
    \/ \E answer \in puts : SerialStrmPut(answer)
    \/ \E outcome \in outcomes : SerialSubtitle(outcome)
    \/ \E loginOk \in logins,
          answers \in [1..Len(run.all_strm_files) -> (IF "false" \in puts THEN {"ok", "rejected"} ELSE {"ok"})] :
          ParallelStrmBatch(loginOk, answers)
    \/ \E results \in [1..Len(run.all_subtitle_tasks) -> outcomes] : ParallelSubtitles(results)
    \/ ParallelRefresh
    \/ GenerateStrmFinish

\* the tools called one at a time, in any order, with or without their
\* preconditions, against stores that accept every upload
NextOrch ==
    \/ \E ok \in BOOLEAN, target_path \in TargetPaths :
          ConnectWebdav(ok, target_path) /\ UNCHANGED <<avars, pvars, xvars>>
    \/ \E ok \in BOOLEAN : ConnectStrmTarget(ok) /\ UNCHANGED <<avars, pvars, xvars>>
    \/ \E upload_delay \in UploadDelays \cup {-1} :
          SetUserConfig(upload_delay) /\ UNCHANGED <<avars, pvars, xvars>>
    \/ \E created \in BOOLEAN, raised \in BOOLEAN, files \in Inventories :
          ScanMediaFiles(created, raised, files) /\ UNCHANGED <<avars, pvars, xvars>>
    \/ \E mappingsOk \in BOOLEAN : AnalyzeAndClassify(mappingsOk) /\ UNCHANGED <<avars, pvars, xvars>>
    \/ \E created \in BOOLEAN :
          OrganizeFiles(created, Len(session.classifications)) /\ UNCHANGED <<avars, pvars, xvars>>
    \/ \E output_format \in OutputFormats, created \in BOOLEAN :
          GenerateStrmBegin(output_format, created) /\ UNCHANGED <<avars, pvars, xvars>>
    \/ UploadRunStep({"true"}, {"ok"}, {TRUE}) /\ UNCHANGED <<avars, pvars, xvars>>
    \/ \E sourceCreated \in BOOLEAN, targetCreated \in BOOLEAN :
          RetryFailedUploads(sourceCreated, targetCreated, <<>>) /\ UNCHANGED <<avars, pvars, xvars>>

SpecOrch == InitEmptyStore /\ [][NextOrch]_vars

\* a connected session that scans, classifies, generates and retries against
\* stores that answer each transfer in every way they can
NextStrm ==
    \/ ConnectWebdav(TRUE, "") /\ UNCHANGED <<avars, pvars, xvars>>
    \/ ConnectStrmTarget(TRUE) /\ UNCHANGED <<avars, pvars, xvars>>
    \/ \E upload_delay \in UploadDelays : SetUserConfig(upload_delay) /\ UNCHANGED <<avars, pvars, xvars>>
    \/ \E files \in FullInventories : ScanMediaFiles(TRUE, FALSE, files) /\ UNCHANGED <<avars, pvars, xvars>>
    \/ AnalyzeAndClassify(TRUE) /\ UNCHANGED <<avars, pvars, xvars>>
    \/ GenerateStrmBegin("webdav", TRUE) /\ UNCHANGED <<avars, pvars, xvars>>
    \/ UploadRunStep(PutAnswers, TaskOutcomes, BOOLEAN) /\ UNCHANGED <<avars, pvars, xvars>>
    \/ \E outcomes \in [1..Len(session.failed_uploads) -> TaskOutcomes] :
          RetryFailedUploads(TRUE, TRUE, outcomes) /\ UNCHANGED <<avars, pvars, xvars>>

SpecStrm == InitEmptyStore /\ [][NextStrm]_vars

\* one batch of subtitle tasks running on the event loop
NextPipe ==
    \/ \E n \in 0..MaxPipeTasks :
          ProcessSubtitlesBatchBegin(n, SUBTITLE_UPLOAD_CONCURRENCY) /\ UNCHANGED <<avars, svars, xvars>>
    \/ TaskAcquire /\ UNCHANGED <<avars, svars, xvars>>
    \/ \E content \in BOOLEAN : TaskDownloaded(content) /\ UNCHANGED <<avars, svars, xvars>>
    \/ \E success \in BOOLEAN : TaskUploaded(success) /\ UNCHANGED <<avars, svars, xvars>>
    \/ ProcessSubtitlesBatchEnd /\ UNCHANGED <<avars, svars, xvars>>

SpecPipe == InitEmptyStore /\ [][NextPipe]_vars

\* threads calling the synchronous list and coroutines calling the
\* asynchronous put_content of one Alist client, in every interleaving
NextGate ==
    GateStep(Callers, {"alist"}, {"list", "put_content"}, BOOLEAN)
        /\ UNCHANGED <<avars, svars, pvars, mvars, cvars, nvars, rvars, ovars, wvars, qvars, kvars, zvars, uvars>>

SpecGate == InitEmptyStore /\ [][NextGate]_vars

\* one caller calling any method of either client
NextClient ==
    GateStep({1}, Variants, Operations, BOOLEAN) /\ UNCHANGED <<avars, svars, pvars, mvars, cvars, nvars, rvars, ovars, wvars, qvars, kvars, zvars, uvars>>

SpecClient == InitEmptyStore /\ [][NextClient]_vars

\* the build of the mapping of every show TMDB can report
InitShows ==
    /\ InitAlistVars /\ server = [d \in Dirs |-> {}]
    /\ InitSession /\ InitPipe /\ InitGate
    /\ tmdb \in Shows
    /\ mapping = NoMapping
    /\ InitClassification /\ InitNaming /\ InitRules /\ InitOrganize /\ InitScan /\ InitPrefs /\ InitLru /\ InitSanitized /\ InitSignal

NextMapping == BuildStep /\ UNCHANGED <<avars, svars, pvars, gvars, cvars, nvars, rvars, ovars, wvars, qvars, kvars, zvars, uvars>>

SpecMapping == InitShows /\ [][NextMapping]_vars

\* the classify operations on the videos of one TMDB id, the mapping of the
\* show being built on the way
NextClassify ==
    \/ BuildStep /\ UNCHANGED <<avars, svars, pvars, gvars, cvars, nvars, rvars, ovars, wvars, qvars, kvars, zvars, uvars>>
    \/ ClassifyStep(MaxFiles, {<<>>}) /\ UNCHANGED <<avars, svars, pvars, gvars, mvars, nvars, rvars, ovars, wvars, qvars, kvars, zvars, uvars>>

SpecClassify == InitEmptyStore /\ [][NextClassify]_vars

\* one video with its subtitles, classified and planned
NextPlan ==
    \/ BuildStep /\ UNCHANGED <<avars, svars, pvars, gvars, cvars, nvars, rvars, ovars, wvars, qvars, kvars, zvars, uvars>>
    \/ ClassifyStep(1, SubtitleLists) /\ UNCHANGED <<avars, svars, pvars, gvars, mvars, nvars, rvars, ovars, wvars, qvars, kvars, zvars, uvars>>

SpecPlan == InitEmptyStore /\ [][NextPlan]_vars

\* the names of the files of one episode, for every title
NextNaming == NamingStep /\ UNCHANGED <<avars, svars, pvars, gvars, mvars, cvars, rvars, ovars, wvars, qvars, kvars, zvars, uvars>>

SpecNaming == InitEmptyStore /\ [][NextNaming]_vars

\* the classifier on the table of the show, for every file and list of rules
NextRules ==
    \/ BuildStep /\ UNCHANGED <<avars, svars, pvars, gvars, cvars, nvars, rvars, ovars, wvars, qvars, kvars, zvars, uvars>>
    \/ RulesStep /\ UNCHANGED <<avars, svars, pvars, gvars, mvars, cvars, nvars, ovars, wvars, qvars, kvars, zvars, uvars>>

SpecRules == InitEmptyStore /\ [][NextRules]_vars

\* organize of one episode on either store, for every answer of the store
NextOrganize == OrganizeStep /\ UNCHANGED <<svars, pvars, gvars, mvars, cvars, nvars, rvars, wvars, qvars, kvars, zvars, uvars>>

SpecOrganize == InitEmptyStore /\ [][NextOrganize]_vars

\* one scan of the store, for every set of directories that fail to list
NextScan == ScanStep /\ UNCHANGED <<avars, svars, pvars, gvars, mvars, cvars, nvars, rvars, ovars, qvars, kvars, zvars, uvars>>

SpecScan == InitEmptyStore /\ [][NextScan]_vars

\* set_user_config called again and again with every combination of arguments
NextPrefs ==
    PrefsStep /\ UNCHANGED <<avars, svars, pvars, gvars, mvars, cvars, nvars, rvars, ovars, wvars, kvars, zvars, uvars>>

SpecPrefs == InitEmptyStore /\ [][NextPrefs]_vars

\* the connected session of the upload runs, with the two preview modes of
\* generate_strm as well
NextModes ==
    \/ NextStrm
    \/ \E output_format \in {"list", "zip"} :
          GenerateStrmBegin(output_format, TRUE) /\ UNCHANGED <<avars, pvars, xvars>>

SpecModes == InitEmptyStore /\ [][NextModes]_vars

\* one cache filled to its capacity, then read and written
NextLru ==
    LruStep /\ UNCHANGED <<avars, svars, pvars, gvars, mvars, cvars, nvars, rvars, ovars, wvars, qvars, zvars, uvars>>

SpecLru == InitEmptyStore /\ [][NextLru]_vars

\* one call of sanitize_filename with any short string
NextSanitize ==
    SanitizeStep /\ UNCHANGED <<avars, svars, pvars, gvars, mvars, cvars, nvars, rvars, ovars, wvars, qvars, kvars, uvars>>

SpecSanitize == InitEmptyStore /\ [][NextSanitize]_vars

\* the connected session of the upload runs, without its frame
StrmSessionStep ==
    \/ ConnectWebdav(TRUE, "")
    \/ ConnectStrmTarget(TRUE)
    \/ \E upload_delay \in UploadDelays : SetUserConfig(upload_delay)
    \/ \E files \in FullInventories : ScanMediaFiles(TRUE, FALSE, files)
    \/ AnalyzeAndClassify(TRUE)
    \/ GenerateStrmBegin("webdav", TRUE)
    \/ UploadRunStep(PutAnswers, TaskOutcomes, BOOLEAN)

\* the same session with a caller that may raise the cancellation during a run
NextCancel ==
    \/ /\ StrmSessionStep
       /\ SignalAfterStep
       /\ UNCHANGED <<avars, pvars, gvars, mvars, cvars, nvars, rvars, ovars, wvars, qvars, kvars, zvars>>
    \/ /\ RaiseCancellation
       /\ UNCHANGED <<avars, svars, pvars, gvars, mvars, cvars, nvars, rvars, ovars, wvars, qvars, kvars, zvars>>

SpecCancel == InitEmptyStore /\ [][NextCancel]_vars


\* ---------------------------------------------------------------------------
\* Properties of the Alist client
\* ---------------------------------------------------------------------------
Mutations == {"put", "move", "copy", "delete", "mkdir"}

\* C1: a successful move, copy, delete, mkdir or put whose target lies in
\* directory P leaves no cache entry list:P behind, so a listing served from
\* the cache equals what the server holds
C1_WriteThroughInvalidation ==
    /\ (aop.kind \in Mutations /\ aop.result = "true") => ~LRUHas(cache, CacheKey(aop.dir))
    /\ lresult.kind = "cached" => lresult.value = server[lpath]

\* C5: a list call that fails after a first response 401 with a successful
\* re-login has made three requests besides the one answered 401
C5_ReloginRetryIsFree ==
    (lresult.kind = "raised" /\ Len(log) > 0 /\ log[1] = "auth401_relogin")
        => Len(log) - 1 >= MAX_RETRIES

AllRateLimited(l) == \A i \in 1..Len(l) : l[i] = "rate_limit"

\* C6: while every response of a list call is a rate-limit response, the
\* call has slept 5s after each of them, has issued at most MAX_RETRIES
\* requests, and after the last of them it has ended with a failure
C6_RateLimitBudget ==
    AllRateLimited(log) =>
        /\ Len(log) <= MAX_RETRIES
        /\ sleeps = [i \in 1..Len(log) |-> DEFAULT_RATE_LIMIT_DELAY]
        /\ Len(log) = MAX_RETRIES => (lpc = "done" /\ lresult.kind = "raised")
        /\ (lpc = "done" /\ Len(log) > 0) => (Len(log) = MAX_RETRIES /\ lresult.kind = "raised")

C6_Witness ==
    /\ lpc = "done"
    /\ lresult.kind = "raised"
    /\ log = <<"rate_limit", "rate_limit", "rate_limit">>
    /\ sleeps = <<DEFAULT_RATE_LIMIT_DELAY, DEFAULT_RATE_LIMIT_DELAY, DEFAULT_RATE_LIMIT_DELAY>>

\* C7: a content transfer whose first request fails transiently and whose
\* second request would succeed returns success
C7_TransientFailureRetried ==
    (/\ aop.kind \in {"put_async", "get_async"}
     /\ creq.nreq >= 1
     /\ creq.script[1] = "transient"
     /\ creq.script[2] = "ok")
        => aop.result \in {"true", "content"}

\* C8: upload_files_batch_async never raises; it returns a tuple whose
\* failed_paths are the paths of the uploads that failed
C8_UploadBatchNeverRaises ==
    /\ bres.kind # "raised"
    /\ bres.kind = "tuple" =>
          /\ {bres.failed_paths[i] : i \in 1..Len(bres.failed_paths)}
               = {bres.files[i] : i \in {j \in 1..Len(bres.files) : bres.answers[j] # "ok"}}
          /\ bres.success + bres.error = Len(bres.files)

\* ---------------------------------------------------------------------------
\* Properties of generate_strm and retry_failed_uploads
\* ---------------------------------------------------------------------------
\* the entry of failed_uploads and the subtitle task name the same transfer
SameTransfer(entry, task) ==
    entry.source_path = task.source_path /\ entry.target_path = task.target_path

\* C2: when generate_strm has finished an upload run, in the serial and in the
\* parallel mode, every subtitle task whose download or upload failed has an
\* entry in the session's failed_uploads with its source_path and target_path
C2_FailedSubtitleTasksRecorded ==
    (gpc = "idle" /\ reply.tool = "generate_strm" /\ reply.message.kind = "uploaded") =>
        \A i \in 1..Len(run.results) :
            run.results[i] # "ok" =>
                \E k \in 1..Len(session.failed_uploads) :
                    SameTransfer(session.failed_uploads[k], run.all_subtitle_tasks[i])

\* the entries a replay tried again without success
FailedAgain == {i \in 1..Len(retried.before) : retried.outcomes[i] # "ok"}

\* C3: when retry_failed_uploads has replayed the entries of failed_uploads,
\* failed_uploads holds exactly the entries whose retry failed again, in their
\* original order (each with the message of its latest failure), and the
\* reported success count plus the remaining entries is the number of entries
\* before the call
C3_RetryKeepsExactlyTheFailures ==
    (reply.tool = "retry_failed_uploads" /\ reply.message.kind = "retried") =>
        /\ Len(session.failed_uploads) = Cardinality(FailedAgain)
        /\ \A i \in FailedAgain :
              LET k == Cardinality({j \in FailedAgain : j <= i})
              IN /\ SameTransfer(session.failed_uploads[k], retried.before[i])
                 /\ session.failed_uploads[k].type = retried.before[i].type
                 /\ session.failed_uploads[k].error = retried.outcomes[i]
        /\ reply.message.success + Len(session.failed_uploads) = Len(retried.before)
        /\ reply.message.error = Len(session.failed_uploads)

\* a replay of two or more entries of which one succeeded and one failed again
C3_Witness ==
    /\ reply.tool = "retry_failed_uploads"
    /\ reply.message.kind = "retried"
    /\ Len(retried.before) >= 2
    /\ reply.message.success >= 1
    /\ session.failed_uploads # <<>>

\* the precondition a tool finds missing in the session
MissingPrecondition(tool, s) ==
    \/ tool = "scan_media_files" /\ s.storage_config.url = ""
    \/ tool = "analyze_and_classify" /\ s.scanned_files = <<>>
    \/ tool = "generate_strm" /\ \/ s.classifications = <<>>
                                 \/ s.storage_config.url = ""
                                 \/ ~s.strm_target_config.connected
    \/ tool = "organize_files" /\ \/ s.classifications = <<>>
                                  \/ s.storage_config.url = ""
                                  \/ s.storage_config.target_path = ""

PreconditionMessages ==
    {"connect_source_first", "scan_first", "classify_first", "connect_target_first",
     "source_not_initialized", "set_target_path_first"}

\* generate_strm asks for the target store only when it uploads: its previews
\* answer with the preview
PreviewMessages == {"listed", "zipped", "unknown_format"}

InFlight == pipe.downloading + pipe.uploading

\* C9: a subtitle task holds one semaphore slot from the start of its download
\* to the end of its upload, so at most 16 tasks are in flight, and a task that
\* has its content starts its upload whatever the other tasks are doing
C9_OneSlotPerSubtitleTask ==
    /\ InFlight <= SUBTITLE_UPLOAD_CONCURRENCY
    /\ pipe.pc = "gather" => InFlight + pipe.semaphore = SUBTITLE_UPLOAD_CONCURRENCY
    /\ pipe.downloading > 0 => ENABLED TaskDownloaded(TRUE)

\* sixteen tasks in flight, some downloading and some uploading, one waiting
C9_Witness ==
    /\ pipe.pc = "gather"
    /\ pipe.waiting = 1
    /\ InFlight = SUBTITLE_UPLOAD_CONCURRENCY
    /\ pipe.downloading > 0
    /\ pipe.uploading > 0

\* C10: in both modes a subtitle task is started, and has run, only when every
\* STRM upload of the run has been issued
C10_StrmBatchBeforeSubtitles ==
    (gpc \in {"subs", "pipeline"} \/ Len(run.results) > 0) =>
        run.strm_issued = Len(run.all_strm_files)

\* the serial loop has handled a subtitle task after the STRM uploads
C10_Witness ==
    /\ run.mode = "serial"
    /\ Len(run.results) > 0
    /\ Len(run.all_strm_files) > 0
    /\ run.strm_issued = Len(run.all_strm_files)

\* an upload run of generate_strm that ran to its end and planned a target file
UploadRunFinished ==
    /\ gpc = "idle"
    /\ reply.tool = "generate_strm"
    /\ reply.message.kind = "uploaded"
    /\ ~run.raised
    /\ Len(run.all_strm_files) + Len(run.all_subtitle_tasks) > 0

\* C11: in the serial and in the parallel mode, an upload run that ran to its
\* end has refreshed the parent directories of the planned target paths, and
\* the refresh starts only when every STRM upload has been issued and every
\* subtitle task has run
C11_RefreshAfterBothStreams ==
    /\ UploadRunFinished => run.refreshed
    /\ run.refreshed => /\ run.strm_issued = Len(run.all_strm_files)
                        /\ Len(run.results) = Len(run.all_subtitle_tasks)

\* the operations on the target store that the serial run has started
SerialOperations == run.strm_issued + Len(run.results)

\* C12: in the serial mode (upload_delay > 0) a sleep of upload_delay lies
\* between every two consecutive operations of the run, the STRM uploads and
\* the subtitle transfers counted as one sequence
C12_SleepBetweenSerialOperations ==
    (run.mode = "serial" /\ SerialOperations >= 1) => run.slept = SerialOperations - 1

\* C13: with a minimum interval d > 0, any two callers of the gate, threads in
\* wait and coroutines in wait_async in any interleaving, come out of it at
\* least d apart
C13_ReleasesOneIntervalApart ==
    \A i, j \in 1..Len(released) :
        i < j => released[j] - released[i] >= MinInterval

\* C14: every request of a storage operation other than upload_batch, on the
\* Alist and on the WebDAV client, is sent by a caller that went through the
\* rate gate first
C14_EveryOperationGated ==
    \A k \in 1..Len(sent) : sent[k].gated

\* the first request of the list call was rate-limited and the second succeeded
RateLimitedThenOk ==
    /\ Len(log) >= 2
    /\ log[1] = "rate_limit"
    /\ log[2] = "ok"

\* C15: a list call whose first request is answered with a rate-limit response
\* and whose second with success returns the listing after exactly two requests
\* and exactly one sleep, of DEFAULT_RATE_LIMIT_DELAY = 5s, with no linear
\* backoff added
C15_RateLimitThenSuccess ==
    RateLimitedThenOk =>
        /\ lpc = "done"
        /\ Len(log) = 2
        /\ lresult = [kind |-> "ok", value |-> server[lpath]]
        /\ sleeps = <<DEFAULT_RATE_LIMIT_DELAY>>
        /\ DEFAULT_RATE_LIMIT_DELAY = 5

\* a list call that returned its listing on the request after a rate limit
C15_Witness ==
    /\ lpc = "done"
    /\ log = <<"rate_limit", "ok">>
    /\ lresult.kind = "ok"

\* the entries of by_cumulative that belong to a season
EntriesOfSeason(m, s) == {k \in DOMAIN m.by_cumulative : m.by_cumulative[k].season = s}

\* C20: in every mapping the resolver builds, also when the episode list of a
\* season is empty or fails to load, the keys of by_cumulative are exactly
\* 1..total_episodes, the cumulative numbers increase by one in insertion
\* order, and episode_in_season runs 1..N without a gap within each season
C20_CumulativeNumbersContiguous ==
    mapping.pc = "built" =>
        /\ DOMAIN mapping.by_cumulative = 1..mapping.total_episodes
        /\ mapping.order = [k \in 1..mapping.total_episodes |-> k]
        /\ \A k \in DOMAIN mapping.by_cumulative : mapping.by_cumulative[k].cumulative = k
        /\ \A s \in 1..mapping.total_seasons :
              LET entries == EntriesOfSeason(mapping, s)
              IN /\ {mapping.by_cumulative[k].episode_in_season : k \in entries}
                        = 1..Cardinality(entries)
                 /\ \A k \in entries :
                        mapping.by_season_episode[<<s, mapping.by_cumulative[k].episode_in_season>>]
                            = mapping.by_cumulative[k]

\* a mapping built for a show whose first season gave no episodes, whose second
\* season starts at an episode_number other than 1
C20_Witness ==
    /\ mapping.pc = "built"
    /\ mapping.total_seasons = 2
    /\ ~tmdb.seasons[1].loaded
    /\ mapping.total_episodes = 2
    /\ mapping.by_cumulative[1].tmdb_episode = 2

\* the videos of the Classification: the files of the seasons of a TV
\* classification, the files of a movie classification
ClassifiedVideos ==
    IF classification.type = "tv"
    THEN {classification.seasons[s][i] :
              <<s, i>> \in {<<t, j>> \in (DOMAIN classification.seasons) \X (1..MaxFiles) :
                               j <= Len(classification.seasons[t])}}
    ELSE {classification.files[i] : i \in 1..Len(classification.files)}

\* the planned subtitle transfers of a video
TransfersOf(cf) ==
    {k \in 1..Len(plan.all_subtitle_tasks) : plan.all_subtitle_tasks[k].source_path[1] = cf.path}

\* C16: for every classified video with n >= 1 subtitles generate_strm plans
\* exactly n + 1 subtitle transfers: one default copy, taken from a subtitle
\* whose language ranks best among the video's subtitles, and one tagged
\* transfer for each of the n subtitles; a video without subtitles gets none
C16_DefaultPlusTaggedTransfers ==
    plan.done =>
        \A cf \in ClassifiedVideos :
            LET transfers == TransfersOf(cf)
                defaults == {k \in transfers : plan.all_subtitle_tasks[k].is_default}
                n == Len(cf.subtitles)
            IN IF n = 0
               THEN transfers = {}
               ELSE /\ Cardinality(transfers) = n + 1
                    /\ Cardinality(defaults) = 1
                    /\ \A k \in defaults, j \in 1..n :
                          /\ plan.all_subtitle_tasks[k].source_path[2] \in
                                 {cf.subtitles[i] : i \in 1..n}
                          /\ LanguagePriority(plan.all_subtitle_tasks[k].source_path[2])
                                 <= LanguagePriority(cf.subtitles[j])
                    /\ \A j \in 1..n :
                          Cardinality({k \in transfers \ defaults :
                                          plan.all_subtitle_tasks[k].target_path[2] = cf.subtitles[j]})
                              = Cardinality({i \in 1..n : cf.subtitles[i] = cf.subtitles[j]})

\* C18: every file stored under seasons[s] of a TV classification, whichever
\* classify operation produced it, has season = s and episode > 0
C18_SeasonFilesHaveTheirSeason ==
    classification.type = "tv" =>
        \A s \in DOMAIN classification.seasons :
            \A i \in 1..Len(classification.seasons[s]) :
                /\ classification.seasons[s][i].season = s
                /\ classification.seasons[s][i].episode > 0

\* C19: every file stored in the files list of a movie classification,
\* whichever classify operation produced it, has season = 0 and episode = 0
C19_MovieFilesHaveNoEpisode ==
    classification.type = "movie" =>
        \A i \in 1..Len(classification.files) :
            /\ classification.files[i].season = 0
            /\ classification.files[i].episode = 0

\* a file name without its extension
Stem(name) == SubSeq(name, 1, Len(name) - 1)

\* C17: for every series title, also one with characters that sanitation
\* rewrites, the default subtitle of an episode has the file name of the
\* episode's .strm file except for the extension
C17_DefaultSubtitleNamedAsStrm ==
    naming.strm_name # <<>> => Stem(naming.default_sub_name) = Stem(naming.strm_name)

\* the rows a dict holds
Rows(d) == {d[k] : k \in DOMAIN d}

\* C21: in every built mapping, looking up each c of 1..total_episodes in the
\* context 'cumulative' gives an EpisodeInfo E, and looking up
\* E.episode_in_season in the context of season E.season gives the same E;
\* by_cumulative and by_season_episode hold the same rows
C21_LookupRoundTrip ==
    mapping.pc = "built" =>
        /\ \A c \in 1..mapping.total_episodes :
              LET found == Lookup(mapping, [kind |-> "cumulative", season |-> 0], c)
              IN /\ found # <<>>
                 /\ Lookup(mapping, [kind |-> "season", season |-> found[1].season],
                           found[1].episode_in_season) = found
        /\ Rows(mapping.by_cumulative) = Rows(mapping.by_season_episode)

\* a built mapping of two seasons with three episodes, the second season
\* numbered by TMDB from 2
C21_Witness ==
    /\ mapping.pc = "built"
    /\ mapping.total_episodes = 3
    /\ mapping.by_cumulative[3].season = 2
    /\ mapping.by_cumulative[3].episode_in_season = 1
    /\ mapping.by_cumulative[3].tmdb_episode = 2

\* the positions of the rules that match the classified file
MatchingRules ==
    {i \in 1..Len(classified.mappings) : RuleMatches(classified.mappings[i], classified.file)}

\* the first of them
FirstMatchingRule == CHOOSE i \in MatchingRules : \A j \in MatchingRules : i <= j

\* C22: each file is decided solely by the first rule of the list that matches
\* it: the result is the one the file gets from that rule alone, whatever
\* rules follow it, and a file that no rule matches gets the status unmatched
C22_FirstMatchingRuleDecides ==
    classified.result.status # "pending" =>
        IF MatchingRules = {}
        THEN classified.result.status = "unmatched"
        ELSE classified.result
                 = ClassifyOneFile(classified.file, <<classified.mappings[FirstMatchingRule]>>)

\* a file matched by two rules that decide differently, and classified by the first
C22_Witness ==
    /\ classified.result.status = "matched"
    /\ Cardinality(MatchingRules) = 2
    /\ classified.mappings[1].media_type = "tv"
    /\ classified.mappings[2].media_type = "movie"
    /\ classified.result.season = 2

\* the classified file was matched by a TV rule of the show that has a table,
\* and a number was extracted from its name
MatchedByTvRule ==
    /\ classified.result.status # "pending"
    /\ MatchingRules # {}
    /\ classified.mappings[FirstMatchingRule].media_type = "tv"
    /\ classified.mappings[FirstMatchingRule].tmdb_id = 1
    /\ classified.file.number > 0

\* C23: a file matched by a TV rule with the extracted number n is matched
\* exactly when n is a key of by_cumulative (context cumulative), or (N, n) is
\* a key of by_season_episode (context season_N); a matched result carries the
\* season and the TMDB episode of that row, and a missing row gives the status
\* unmatched with no placement
C23_MatchedExactlyWhenRowExists ==
    MatchedByTvRule =>
        LET context == classified.mappings[FirstMatchingRule].context
            n == classified.file.number
            result == classified.result
        IN IF context.kind = "cumulative"
           THEN IF n \in DOMAIN mapping.by_cumulative
                THEN /\ result.status = "matched"
                     /\ result.season = mapping.by_cumulative[n].season
                     /\ result.episode = mapping.by_cumulative[n].tmdb_episode
                ELSE result.status = "unmatched" /\ result.season = 0 /\ result.episode = 0
           ELSE IF <<context.season, n>> \in DOMAIN mapping.by_season_episode
                THEN /\ result.status = "matched"
                     /\ result.season = mapping.by_season_episode[<<context.season, n>>].season
                     /\ result.episode
                            = mapping.by_season_episode[<<context.season, n>>].tmdb_episode
                ELSE result.status = "unmatched" /\ result.season = 0 /\ result.episode = 0

\* a file numbered past the end of season 2 under the rule of season 2
C23_Witness ==
    /\ MatchedByTvRule
    /\ classified.mappings[FirstMatchingRule].context = [kind |-> "season", season |-> 2]
    /\ classified.file.number = 3
    /\ classified.file.number \in DOMAIN mapping.by_cumulative
    /\ classified.result.status = "unmatched"

\* the positions in the log of the operations on a subtitle
OpsOn(op, k) == {n \in 1..Len(org.ops) : org.ops[n].op = op /\ org.ops[n].item = k}

\* every operation of the episode was reported done by the store
AllReportedTrue == \A n \in 1..Len(org.ops) : org.ops[n].result = "true"

\* C24: for each video the default subtitle is copied to its untagged target
\* before that subtitle file is moved to its tagged target, the copy reads a
\* source that has not been moved away, and afterwards every subtitle, the
\* defaulted one included, exists under its tagged name
C24_DefaultCopiedBeforeMove ==
    /\ \A k \in 1..Len(org.subtitles) :
          \A n \in OpsOn("move", k) :
              k = DefaultSubtitleIndex(org.subtitles) =>
                  \E c \in OpsOn("copy", k) : c < n /\ org.ops[c].sent
    /\ org.copy_read # "missing"
    /\ (org.pc = "done" /\ AllReportedTrue) =>
          \A k \in 1..Len(org.subtitles) :
              SubNewPath(org.subtitles[k]).name \in server[SeasonDir]

\* the operations on the video, and on the subtitles, that the store reported done
ReportedTrue(items) ==
    Cardinality({n \in 1..Len(org.ops) : org.ops[n].item \in items /\ org.ops[n].result = "true"})

\* C25: organize counts a video or a subtitle as organized only if the move
\* or copy of the store reported success; one the store rejects with a false
\* return is counted as a failure
C25_CountsOnlyReportedSuccess ==
    /\ org.season_success = ReportedTrue({0})
    /\ org.season_subtitle_success = ReportedTrue(1..Len(org.subtitles))
    /\ org.season_success + org.season_error + org.season_subtitle_success
           + org.season_subtitle_error = Len(org.ops)

\* the depth of a directory of the store below the entry directory
DepthBelowEntry ==
    [d \in DOMAIN ScanTree |->
        IF d = "/" THEN 0 ELSE IF d \in {"/s1", "/s2"} THEN 1 ELSE IF d = "/s1/x" THEN 2 ELSE 3]

\* a directory and the directories above it
WithAncestors ==
    [d \in DOMAIN ScanTree |->
        IF d = "/s1/x/y" THEN {"/", "/s1", "/s1/x", "/s1/x/y"}
        ELSE IF d = "/s1/x" THEN {"/", "/s1", "/s1/x"}
        ELSE {"/", d}]

\* the video and subtitle files that a directory holds
MediaFilesOf(d) ==
    {ScanTree[d][i].path : i \in {j \in 1..Len(ScanTree[d]) :
                                     ScanTree[d][j].file_type \in {"video", "subtitle"}}}

\* files = video_files + subtitle_files
Inventory ==
    {scan.traversal.video_files[i] : i \in 1..Len(scan.traversal.video_files)}
    \cup {scan.traversal.subtitle_files[i] : i \in 1..Len(scan.traversal.subtitle_files)}

\* the directories that the arguments of the scan put in its range
InRange(d) ==
    /\ DepthBelowEntry[d] <= scan.max_depth
    /\ scan.recursive \/ d = EntryDir

\* C26: a directory whose listing fails is skipped and the traversal goes on:
\* scan does not fail, and unless the cap on the files stopped it, the
\* inventory holds every video and subtitle file of every directory within
\* the depth limit whose own listing and whose ancestors' listings succeeded
C26_FailedListingIsSkipped ==
    scan.done =>
        /\ ~scan.raised
        /\ ~CapReached(scan.traversal, scan.max_files) =>
              \A d \in DOMAIN ScanTree :
                  (InRange(d) /\ WithAncestors[d] \cap scan.failing = {})
                      => MediaFilesOf(d) \subseteq Inventory

\* the first subdirectory failed to list and the files of the entry directory
\* and of the second subdirectory are in the inventory
C26_Witness ==
    /\ scan.done
    /\ scan.failing = {"/s1"}
    /\ scan.traversal.skipped = <<"/s1">>
    /\ scan.max_files = 0
    /\ Inventory = {"/v0.mkv", "/v0.srt", "/s2/v4.mkv", "/s2/v4.srt"}

\* the directories that list_directory was called for
Listed == {scan.traversal.listed[i] : i \in 1..Len(scan.traversal.listed)}

\* C27: scan never lists a directory deeper below the entry directory than
\* max_depth; with max_depth = 0 it lists exactly the entry directory, and
\* with recursive = false it lists no subdirectory
C27_ListsWithinMaxDepth ==
    scan.done =>
        /\ \A d \in Listed : DepthBelowEntry[d] <= scan.max_depth
        /\ scan.max_depth = 0 => scan.traversal.listed = <<EntryDir>>
        /\ ~scan.recursive => Listed \subseteq {EntryDir}

\* a scan with max_depth 2 on a store that is three levels deep
C27_Witness ==
    /\ scan.done
    /\ scan.recursive
    /\ scan.max_depth = 2
    /\ scan.failing = {}
    /\ scan.max_files = 0
    /\ scan.traversal.listed = <<"/", "/s1", "/s1/x", "/s2">>

\* C28: after connect_webdav (the source) or connect_strm_target (the target)
\* fails, the session does not show that store as connected: storage_config,
\* respectively strm_target_config, does not have connected = true, also when
\* an earlier connect to that store had succeeded
C28_FailedConnectMarksNotConnected ==
    /\ (reply.tool = "connect_webdav" /\ reply.message.kind = "connect_failed")
          => ~session.storage_config.connected
    /\ (reply.tool = "connect_strm_target" /\ reply.message.kind = "connect_failed")
          => ~session.strm_target_config.connected

\* C29: set_user_config called with no changes (every argument at its
\* no-change default) leaves user_config equal to its value before the call,
\* for every prior value, the initial empty one included
C29_NoChangeKeepsUserConfig ==
    (prefs.called /\ prefs.changes = 0) => prefs.user_config = prefs.before

\* C30: generate_strm in upload mode returns, whatever the outcomes of the
\* files, a delta that empties classifications, and failed_uploads changes
\* only when that delta carries it; in the list and zip preview modes it
\* returns an empty delta, and classifications and failed_uploads keep their
\* values
C30_UploadClearsPreviewKeeps ==
    [][/\ (gpc = "build" /\ gpc' = "idle") =>
              /\ reply'.tool = "generate_strm"
              /\ "classifications" \in reply'.state_update
              /\ session'.classifications = <<>>
              /\ session'.failed_uploads # session.failed_uploads
                     => "failed_uploads" \in reply'.state_update
       /\ (reply'.tool = "generate_strm" /\ reply'.output_format \in {"list", "zip"}
               /\ reply'.message.kind \in {"listed", "zipped"}) =>
              /\ reply'.state_update = {}
              /\ session'.classifications = session.classifications
              /\ session'.failed_uploads = session.failed_uploads]_vars

\* an upload run with a failed STRM and a failed subtitle has returned, and a
\* preview of a later classification has been given
C30_Witness ==
    /\ reply.tool = "generate_strm"
    /\ reply.message.kind = "listed"
    /\ session.classifications # <<>>
    /\ session.failed_uploads # <<>>
    /\ session.strm_progress.error >= 2

\* the key whose last use (a hit of get, or a set) is the oldest
LeastRecentlyUsed(c, used) ==
    CHOOSE k \in LruKeys(c) : \A j \in LruKeys(c) : used[k] <= used[j]

\* C31: the directory cache never holds more than its capacity of 100 entries,
\* and an insert into a full cache evicts exactly the least recently used
\* entry, where a hit of get and an insert both count as a use
C31_CapacityAndLruEviction ==
    [][/\ Len(lru'.cache) <= 100
       /\ (lru'.last.op = "set" /\ lru'.calls = lru.calls + 1
             /\ Len(lru.cache) = 100 /\ ~lru'.last.hit) =>
              LruKeys(lru.cache) \ LruKeys(lru'.cache)
                  = {LeastRecentlyUsed(lru.cache, lru.used)}]_vars

\* a new key was inserted into a full cache after the first key had been read
\* again, so the oldest insert is not the least recently used entry
C31_Witness ==
    /\ lru.last.op = "set" /\ ~lru.last.hit
    /\ Len(lru.cache) = 100
    /\ lru.fresh > 101
    /\ lru.used[1] > 100
    /\ 1 \in LruKeys(lru.cache)
    /\ 2 \notin LruKeys(lru.cache)

\* C32: for every input string, the result of sanitize_filename contains none
\* of the characters \ / : * ? " < > | and no two '.' in a row
C32_NoIllegalCharNoDotRun ==
    sanitized.called =>
        /\ \A i \in 1..Len(sanitized.cleaned) : sanitized.cleaned[i] \notin IllegalChars
        /\ \A i \in 1..(Len(sanitized.cleaned) - 1) :
               ~(sanitized.cleaned[i] = "." /\ sanitized.cleaned[i + 1] = ".")

\* a name with two forbidden characters in a row between letters: both became
\* dots, and one dot is left in the result
C32_Witness ==
    /\ sanitized.called
    /\ sanitized.name = <<"a", "|", "\\", "a">>
    /\ sanitized.cleaned = <<"a", ".", "a">>

\* C33: every orchestrator operation accepts a cancellation signal; once it is
\* raised the operation starts no further network call, and the partial
\* results obtained so far are recorded in the session state
C33_NoNetworkCallAfterCancel ==
    [][/\ (signal.raised /\ gpc \in NetworkStages) => (run' = run /\ gpc' = gpc)
       /\ (signal.raised /\ gpc' = "idle") =>
              /\ reply'.tool = "generate_strm"
              /\ session'.strm_progress.success + session'.strm_progress.error
                     = run.strm_success + run.strm_error + run.sub_success + run.sub_error]_vars

NoRepeat(s) == \A i, j \in 1..Len(s) : s[i] = s[j] => i = j

\* C34: within one generate_strm run no two source files are planned onto the
\* same target path: every STRM target path comes from at most one classified
\* video and every subtitle target path from at most one subtitle task
C34_TargetPathsDistinct ==
    plan.done =>
        /\ Len(StrmTargets(classification, DOMAIN classification.seasons))
               = Len(plan.all_strm_files)
        /\ NoRepeat(StrmTargets(classification, DOMAIN classification.seasons))
        /\ NoRepeat(SubtitleTargets(classification, DOMAIN classification.seasons))

\* C35: after a generate_strm upload run has completed, failed_uploads
\* describes only the failures of that run: every entry names a subtitle task
\* of the run that failed, and when no subtitle task of the run failed the
\* list is empty, so that a later retry never replays an earlier run's failures
C35_FailedUploadsOfThisRunOnly ==
    (reply.tool = "generate_strm" /\ reply.message.kind = "uploaded") =>
        /\ run.sub_error = 0 => session.failed_uploads = <<>>
        /\ \A k \in 1..Len(session.failed_uploads) :
               \E i \in 1..Len(run.results) :
                   /\ run.results[i] # "ok"
                   /\ SameTransfer(session.failed_uploads[k], run.all_subtitle_tasks[i])

\* the videos of a Classification: the files of its seasons and its files
VideoCount(cls) ==
    Len(FilesBySeason(cls.seasons, DOMAIN cls.seasons)) + Len(cls.files)

\* C36: every classified video handed to generate_strm is planned as exactly
\* one STRM upload, so the number of planned STRM files equals the number of
\* video files in the classification, and after an upload run
\* strm_progress.success + strm_progress.error equals strm_progress.total
C36_EveryVideoAccountedFor ==
    /\ plan.done => Len(plan.all_strm_files) = VideoCount(classification)
    /\ (reply.tool = "generate_strm" /\ reply.message.kind = "uploaded") =>
           session.strm_progress.success + session.strm_progress.error
               = session.strm_progress.total

\* C37: an Alist move(src, dst) into another directory under a new name is
\* all-or-nothing as the caller sees it: it returns true with the file at dst
\* and gone from src, or it returns false or raises with the file still at src
C37_MoveAllOrNothing ==
    (org.variant = "alist" /\ Len(org.ops) >= 1) =>
        LET result == org.ops[1].result
        IN /\ result = "true" =>
                  /\ NewPath.name \in server[NewPath.dir]
                  /\ VideoPath.name \notin server[VideoPath.dir]
           /\ result \in {"false", "raised"} => VideoPath.name \in server[VideoPath.dir]

\* C38: every source path held in classifications refers to a file of the
\* current inventory of the connected source: connecting to a source or
\* scanning again discards the classifications of the previous inventory, so
\* that generate_strm never starts a run on paths of a stale scan
C38_ClassificationsOfCurrentInventory ==
    /\ \A k \in 1..Len(session.classifications) :
          \E j \in 1..Len(session.scanned_files) :
              session.scanned_files[j].id = session.classifications[k].path
    /\ gpc \in NetworkStages =>
          \A k \in 1..Len(run.all_strm_files) :
              \E j \in 1..Len(session.scanned_files) :
                  session.scanned_files[j].id = run.all_strm_files[k][1]

====
